---- MODULE Spec2Model ----
(***************************************************************************)
(* Shame Clock: the background service worker's session tracker            *)
(* (time-tracker.js), scheduler (scheduler.js), goal monitor (goals.js)    *)
(* and popup checker (service-worker.js), as a state machine.              *)
(*                                                                         *)
(* Time is in milliseconds since a reference Sunday 00:00.  The local time *)
(* zone is taken to be UTC, so the ledger's day key (toISOString) and the  *)
(* scheduler's getDay()/getHours() read the same clock.                    *)
(***************************************************************************)
EXTENDS Integers, Sequences, FiniteSets, TLC

VARIABLES
  now,              \* Date.now()
  tabUrl,           \* browser: the URL shown by each tab
  browserActive,    \* browser: the active tab of the window
  windowFocused,    \* browser: whether the window has focus
  activeTab,        \* time-tracker.js: let activeTab        (<<>> is null)
  startTime,        \* time-tracker.js: let startTime        (NoTime is null)
  currentDomain,    \* time-tracker.js: let currentDomain    (NULL is null)
  trackingInterval, \* time-tracker.js: let trackingInterval (due time of the timer, NoTime is null)
  timeData,         \* storage 'timeData': day key -> domain -> ms
  config,           \* storage 'shameClockConfig'
  schedulerConfig,  \* storage 'schedulerConfig'
  lastPopupTime,    \* storage 'lastPopupTime' (0 when absent)
  lastPopupDomain,  \* storage 'lastPopupDomain' (NULL when absent)
  snoozeUntil,      \* storage: the snooze deadline (0 when absent)
  userGoals,        \* storage 'userGoals'
  popupCheckInterval, \* service-worker.js: let popupCheckInterval (due time of the timer)
  ticks,            \* the executions of checkPopupTrigger in progress
  deleting,         \* the 'deleteGoal' message handler in progress
  trueActive,       \* history: ms during which a tracked site was the focused active tab
  popups,           \* history: the interventions dispatched, [domain, time, interval]
  notified,         \* history: the goal notifications shown, as history keys
  response,         \* the reply sent to the latest query message (NoResponse before any)
  channels,         \* browser: whether tabs.sendMessage and notifications.create succeed
  resetting,        \* checkDailyReset in progress, and storage 'dailyReset' (a day, NoTime when absent)
  storage,          \* chrome.storage.local as getStorageValue reads it, by key
  stopping,         \* the executions of handleTabInactive in progress
  focus,            \* storage 'focusSessions': currentSession, sessionHistory, todayStats
  writer,           \* the BatchedStorageWriter, its flushes in flight and what storage holds
  retrying,         \* the execution of withRetry
  fault,            \* the step that fails, and the execution of checkPopupTrigger it fails in
  delivered         \* history: the deliveries done by triggerPopup

-----------------------------------------------------------------------------
(* Program constants *)

FLUSH_INTERVAL == 60000
TICK_INTERVAL == 30000
MS_PER_MINUTE == 60000
MINUTES_PER_DAY == 24 * 60
MS_PER_DAY == MINUTES_PER_DAY * MS_PER_MINUTE

NULL == "null"
NoTime == -1

(* Bounds of the model *)

\* The clock advances in steps of one polling period, MaxSteps times.
Step == TICK_INTERVAL
MaxSteps == 8
\* Monday 12:00:00
BootTime == MS_PER_DAY + 720 * MS_PER_MINUTE
Horizon == BootTime + MaxSteps * Step
\* The popup checker is followed for fewer steps
MaxTickSteps == 3
TickHorizon == BootTime + MaxTickSteps * Step

TabIds == {1, 2}
TrackedDomains == {"a.com", "b.com"}
Urls ==
  { [www |-> TRUE,  host |-> "a.com"],
    [www |-> FALSE, host |-> "b.com"],
    [www |-> FALSE, host |-> "news.org"] }
StartUrl == [www |-> FALSE, host |-> "news.org"]

-----------------------------------------------------------------------------
(* Helpers of the host *)

\* new URL(url).hostname.replace(/^www\./, '')
DomainOf(url) == url.host

\* isTrackedSite(url) !== null: the site matcher, an external collaborator
isTrackedSite(url) == DomainOf(url) \in TrackedDomains

\* JavaScript truthiness of a string-or-null and of a number-or-null
Truthy(s) == s # NULL /\ s # ""
TruthyNum(n) == n # NoTime /\ n # 0

\* new Date().toISOString().split('T')[0], as a day number
getTodayKey(t) == t \div MS_PER_DAY
\* new Date().getDay(): 0 is Sunday
getDay(t) == (t \div MS_PER_DAY) % 7
\* now.getHours() * 60 + now.getMinutes()
currentMinutes(t) == (t \div MS_PER_MINUTE) % MINUTES_PER_DAY

EmptyDay == [d \in TrackedDomains |-> 0]

RETENTION_DAYS == 30

\* timeData[day][domain] || 0
LedgerAt(td, day, domain) ==
  IF day \in DOMAIN td /\ domain \in TrackedDomains THEN td[day][domain] ELSE 0

-----------------------------------------------------------------------------
(* time-tracker.js, on the tracker's state T =                             *)
(* [activeTab, startTime, currentDomain, trackingInterval, timeData]       *)

Tracker ==
  [ activeTab |-> activeTab, startTime |-> startTime,
    currentDomain |-> currentDomain, trackingInterval |-> trackingInterval,
    timeData |-> timeData ]

stopTracking(T, t) ==
  IF ~Truthy(T.currentDomain) \/ ~TruthyNum(T.startTime) THEN T
  ELSE
    LET elapsed == t - T.startTime
        todayKey == getTodayKey(t)
        td1 == IF todayKey \in DOMAIN T.timeData
               THEN T.timeData
               ELSE T.timeData @@ (todayKey :> EmptyDay)
        td2 == [td1 EXCEPT ![todayKey][T.currentDomain] = @ + elapsed]
    IN [T EXCEPT !.timeData = td2, !.currentDomain = NULL, !.startTime = NoTime]

startTracking(T, domain, t) ==
  IF T.currentDomain = domain /\ T.startTime # NoTime THEN T
  ELSE
    LET T1 == IF Truthy(T.currentDomain) /\ TruthyNum(T.startTime)
              THEN stopTracking(T, t)
              ELSE T
    IN [T1 EXCEPT !.currentDomain = domain, !.startTime = t]

\* The setInterval callback of updateActiveTab: the argument of startTracking
\* is read after stopTracking has completed.
periodicSave(T, t) ==
  IF Truthy(T.currentDomain) /\ TruthyNum(T.startTime) /\ t - T.startTime >= FLUSH_INTERVAL
  THEN LET T1 == stopTracking(T, t) IN startTracking(T1, T1.currentDomain, t)
  ELSE T

updateActiveTab(T, tabId, url, tracked, t) ==
  LET T0 == [T EXCEPT !.activeTab = <<[tabId |-> tabId, url |-> url, isTracked |-> tracked]>>]
  IN IF tracked
     THEN LET T1 == startTracking(T0, DomainOf(url), t)
          IN IF T1.trackingInterval = NoTime
             THEN [T1 EXCEPT !.trackingInterval = t + FLUSH_INTERVAL]
             ELSE T1
     ELSE [stopTracking(T0, t) EXCEPT !.trackingInterval = NoTime]

handleTabUpdate(T, tabId, url, tracked, t) ==
  IF T.activeTab # <<>> /\ T.activeTab[1].tabId = tabId
  THEN updateActiveTab(T, tabId, url, tracked, t)
  ELSE T

handleTabInactive(T, t) ==
  [stopTracking(T, t) EXCEPT !.activeTab = <<>>, !.trackingInterval = NoTime]

\* A retention that also deletes the day 30 days back
PruneOldDaysInclusive(td, t) ==
  [day \in {k \in DOMAIN td : k > getTodayKey(t) - RETENTION_DAYS} |-> td[day]]

\* resetDailyData: delete timeData[dateKey] for dateKey < cutoffKey, the
\* cutoff being the day 30 days back
PruneOldDays(td, t) ==
  [day \in {k \in DOMAIN td : ~(k < getTodayKey(t) - RETENTION_DAYS)} |-> td[day]]

\* checkDailyReset is not running; the day of the last reset
IdleReset(day) == [pc |-> "idle", timeData |-> <<>>, dailyReset |-> day]

\* The handlers when getTimeData or saveTimeData rejects: stopTracking throws
\* before it resets the session, and its callers throw with it.
stopTrackingThrows(T) == Truthy(T.currentDomain) /\ TruthyNum(T.startTime)

updateActiveTabRejected(T, tabId, url, tracked, t) ==
  LET T0 == [T EXCEPT !.activeTab = <<[tabId |-> tabId, url |-> url, isTracked |-> tracked]>>]
  IN IF stopTrackingThrows(T0) /\ ~(tracked /\ T0.currentDomain = DomainOf(url))
     THEN T0
     ELSE updateActiveTab(T, tabId, url, tracked, t)

handleTabUpdateRejected(T, tabId, url, tracked, t) ==
  IF T.activeTab # <<>> /\ T.activeTab[1].tabId = tabId
  THEN updateActiveTabRejected(T, tabId, url, tracked, t)
  ELSE T

handleTabInactiveRejected(T, t) ==
  IF stopTrackingThrows(T) THEN T ELSE handleTabInactive(T, t)

periodicSaveRejected(T, t) == T

getTimeSpentToday(T, domain, t) ==
  LET todayKey == getTodayKey(t)
  IN IF todayKey \notin DOMAIN T.timeData \/ LedgerAt(T.timeData, todayKey, domain) = 0
     THEN 0
     ELSE LET currentSession ==
                IF T.currentDomain = domain /\ TruthyNum(T.startTime)
                THEN t - T.startTime
                ELSE 0
          IN T.timeData[todayKey][domain] + currentSession

\* The keys of a day of the ledger, in the order of the for...in loops
DomainSeq == <<"a.com", "b.com">>

RECURSIVE SumSeq(_)
SumSeq(q) == IF q = <<>> THEN 0 ELSE Head(q) + SumSeq(Tail(q))

\* The running session counted for a domain
currentSessionOf(T, domain, t) ==
  IF T.currentDomain = domain /\ TruthyNum(T.startTime) THEN t - T.startTime ELSE 0

\* The domains that today's ledger has an entry for
TodayDomains(T, t) ==
  SelectSeq(DomainSeq, LAMBDA d : LedgerAt(T.timeData, getTodayKey(t), d) # 0)

getTotalTimeToday(T, t) ==
  LET ds == TodayDomains(T, t)
  IN SumSeq([i \in 1..Len(ds) |->
       LedgerAt(T.timeData, getTodayKey(t), ds[i]) + currentSessionOf(T, ds[i], t)])

\* getTodayStats: one entry per domain of today's ledger, sorted by time spent,
\* the longest first
getTodayStats(T, t) ==
  LET ds == TodayDomains(T, t)
  IN SortSeq([i \in 1..Len(ds) |->
                [domain |-> ds[i],
                 timeSpent |-> LedgerAt(T.timeData, getTodayKey(t), ds[i])
                                 + currentSessionOf(T, ds[i], t)]],
             LAMBDA x, y : x.timeSpent > y.timeSpent)

\* A read that flushes the session
ReadEffectFlush(T, t) == stopTracking(T, t)

\* The tracker after getTimeSpentToday, getTotalTimeToday or getTodayStats:
\* they assign none of its variables and save nothing
ReadEffect(T, t) == T

-----------------------------------------------------------------------------
(* scheduler.js.  A time of day is the string "HH:MM", kept as its sequence *)
(* of characters; a number that may be NaN is <<n>> or <<>>.               *)

Digits == {"0", "1", "2", "3", "4", "5", "6", "7", "8", "9"}

DigitVal(c) ==
  CASE c = "0" -> 0 [] c = "1" -> 1 [] c = "2" -> 2 [] c = "3" -> 3 [] c = "4" -> 4
    [] c = "5" -> 5 [] c = "6" -> 6 [] c = "7" -> 7 [] c = "8" -> 8 [] c = "9" -> 9

RECURSIVE DigitsValue(_)
DigitsValue(s) ==
  IF s = <<>> THEN 0
  ELSE 10 * DigitsValue(SubSeq(s, 1, Len(s) - 1)) + DigitVal(s[Len(s)])

\* Number(s) of a string of decimal digits (Number('') is 0); anything else is NaN
Number(s) ==
  IF \A i \in 1..Len(s) : s[i] \in Digits THEN <<DigitsValue(s)>> ELSE <<>>

\* s.split(':')
RECURSIVE SplitColon(_)
SplitColon(s) ==
  IF \E i \in 1..Len(s) : s[i] = ":"
  THEN LET i == CHOOSE k \in 1..Len(s) : s[k] = ":" /\ \A j \in 1..(k - 1) : s[j] # ":"
       IN <<SubSeq(s, 1, i - 1)>> \o SplitColon(SubSeq(s, i + 1, Len(s)))
  ELSE <<s>>

\* const [hour, min] = time.split(':').map(Number); hour * 60 + min
MinutesOf(time) ==
  LET parts == SplitColon(time)
      hour == Number(parts[1])
      min == IF Len(parts) >= 2 THEN Number(parts[2]) ELSE <<>>
  IN IF hour # <<>> /\ min # <<>> THEN <<hour[1] * 60 + min[1]>> ELSE <<>>

\* A range check without the overnight branch
isWithinTimeRangeNoWrap(start, end, t) ==
  LET startMinutes == MinutesOf(start)
      endMinutes == MinutesOf(end)
      cur == currentMinutes(t)
  IN IF startMinutes = <<>> \/ endMinutes = <<>> THEN FALSE
     ELSE cur >= startMinutes[1] /\ cur < endMinutes[1]

isWithinTimeRange(start, end, t) ==
  LET startMinutes == MinutesOf(start)
      endMinutes == MinutesOf(end)
      cur == currentMinutes(t)
  IN IF startMinutes = <<>> \/ endMinutes = <<>> THEN FALSE
     ELSE IF startMinutes[1] > endMinutes[1]
          THEN cur >= startMinutes[1] \/ cur < endMinutes[1]
          ELSE cur >= startMinutes[1] /\ cur < endMinutes[1]

isScheduleActive(schedule, t) ==
  IF getDay(t) \notin schedule.days THEN FALSE
  ELSE isWithinTimeRange(schedule.startTime, schedule.endTime, t)

isQuietHours(sc, t) ==
  IF ~sc.enabled \/ ~sc.quickSettings.quietHoursEnabled THEN FALSE
  ELSE isWithinTimeRange(sc.quickSettings.quietHoursStart, sc.quickSettings.quietHoursEnd, t)

isWorkHours(sc, t) ==
  IF ~sc.enabled \/ ~sc.quickSettings.workHoursEnabled THEN FALSE
  ELSE IF getDay(t) \notin sc.quickSettings.workDays THEN FALSE
  ELSE isWithinTimeRange(sc.quickSettings.workHoursStart, sc.quickSettings.workHoursEnd, t)

isWeekend(t) == getDay(t) = 0 \/ getDay(t) = 6

\* A suppression check that looks at the quiet hours only
shouldSuppressPopupsQuietOnly(sc, t) ==
  IF ~sc.enabled THEN FALSE ELSE isQuietHours(sc, t)

shouldSuppressPopups(sc, t) ==
  IF ~sc.enabled THEN FALSE
  ELSE IF isQuietHours(sc, t) THEN TRUE
  ELSE \E i \in 1..Len(sc.schedules) :
         /\ sc.schedules[i].enabled
         /\ sc.schedules[i].action = "disable_popups"
         /\ isScheduleActive(sc.schedules[i], t)

shouldBlockTracking(sc, t) ==
  IF ~sc.enabled THEN FALSE
  ELSE \E i \in 1..Len(sc.schedules) :
         /\ sc.schedules[i].enabled
         /\ sc.schedules[i].action = "block_tracking"
         /\ isScheduleActive(sc.schedules[i], t)

\* A field of a rule that is missing: undefined.split(':') and
\* undefined.includes(...) throw a TypeError
Undefined == <<"undefined">>
NoDays == {-1}

\* isScheduleActive throws
isScheduleActiveThrows(schedule, t) ==
  IF schedule.days = NoDays THEN TRUE
  ELSE IF getDay(t) \notin schedule.days THEN FALSE
  ELSE schedule.startTime = Undefined \/ schedule.endTime = Undefined

\* shouldSuppressPopups / shouldBlockTracking throw: a rule of the action
\* throws before the loop has returned true
ScheduleLoopThrows(sc, t, action) ==
  /\ sc.enabled
  /\ \E i \in 1..Len(sc.schedules) :
       /\ sc.schedules[i].enabled
       /\ sc.schedules[i].action = action
       /\ isScheduleActiveThrows(sc.schedules[i], t)
       /\ \A j \in 1..(i - 1) :
            ~(/\ sc.schedules[j].enabled
              /\ sc.schedules[j].action = action
              /\ ~isScheduleActiveThrows(sc.schedules[j], t)
              /\ isScheduleActive(sc.schedules[j], t))

shouldSuppressPopupsThrows(sc, t) ==
  ~isQuietHours(sc, t) /\ ScheduleLoopThrows(sc, t, "disable_popups")

\* getCurrentThresholdMultiplier throws: isScheduleActive is called for
\* every enabled rule
getCurrentThresholdMultiplierThrows(sc, t) ==
  /\ sc.enabled
  /\ \E i \in 1..Len(sc.schedules) :
       sc.schedules[i].enabled /\ isScheduleActiveThrows(sc.schedules[i], t)

\* getScheduleSummary throws
getScheduleSummaryThrows(sc, t) ==
  \/ getCurrentThresholdMultiplierThrows(sc, t)
  \/ shouldSuppressPopupsThrows(sc, t)
  \/ ScheduleLoopThrows(sc, t, "block_tracking")

\* A multiplier is the fraction n / d.
One == [n |-> 1, d |-> 1]
Half == [n |-> 1, d |-> 2]
Times(a, b) == [n |-> a.n * b.n, d |-> a.d * b.d]

RECURSIVE ScheduleMultiplier(_, _, _)
ScheduleMultiplier(schedules, t, acc) ==
  IF schedules = <<>> THEN acc
  ELSE LET s == Head(schedules)
           next == IF s.enabled /\ isScheduleActive(s, t) /\ s.action = "adjust_threshold"
                   THEN Times(acc, s.thresholdMultiplier)
                   ELSE acc
       IN ScheduleMultiplier(Tail(schedules), t, next)

\* A multiplier that leaves out the work hours factor
getCurrentThresholdMultiplierNoWork(sc, t) ==
  IF ~sc.enabled THEN One
  ELSE ScheduleMultiplier(sc.schedules, t,
                          IF sc.quickSettings.weekendMode /\ isWeekend(t)
                          THEN sc.quickSettings.weekendMultiplier
                          ELSE One)

getCurrentThresholdMultiplier(sc, t) ==
  IF ~sc.enabled THEN One
  ELSE LET m1 == IF sc.quickSettings.weekendMode /\ isWeekend(t)
                 THEN sc.quickSettings.weekendMultiplier
                 ELSE One
           m2 == IF isWorkHours(sc, t) THEN Times(m1, Half) ELSE m1
       IN ScheduleMultiplier(sc.schedules, t, m2)

\* getScheduleSummary
getScheduleSummary(sc, t) ==
  [ enabled |-> sc.enabled,
    quietHoursActive |-> isQuietHours(sc, t),
    workHoursActive |-> isWorkHours(sc, t),
    isWeekend |-> isWeekend(t),
    currentMultiplier |-> getCurrentThresholdMultiplier(sc, t),
    popupsSuppressed |-> shouldSuppressPopups(sc, t),
    trackingBlocked |-> shouldBlockTracking(sc, t),
    activeSchedules |-> Len(SelectSeq(sc.schedules, LAMBDA x : x.enabled)),
    totalSchedules |-> Len(sc.schedules) ]

\* DEFAULT_SCHEDULER_CONFIG
Time(a, b, c, d) == <<a, b, ":", c, d>>

DEFAULT_QUICK_SETTINGS ==
  [ quietHoursEnabled |-> FALSE,
    quietHoursStart |-> Time("2", "2", "0", "0"),
    quietHoursEnd |-> Time("0", "8", "0", "0"),
    workHoursEnabled |-> FALSE,
    workHoursStart |-> Time("0", "9", "0", "0"),
    workHoursEnd |-> Time("1", "7", "0", "0"),
    workDays |-> {1, 2, 3, 4, 5},
    weekendMode |-> FALSE,
    weekendMultiplier |-> [n |-> 3, d |-> 2] ]

DEFAULT_SCHEDULER_CONFIG ==
  [ enabled |-> TRUE, schedules |-> <<>>, quickSettings |-> DEFAULT_QUICK_SETTINGS ]

\* addSchedule(schedule): the stored rule
Schedule(id, start, end, days, action, multiplier) ==
  [ id |-> id, enabled |-> TRUE, startTime |-> start, endTime |-> end,
    days |-> days, action |-> action, thresholdMultiplier |-> multiplier ]

AllDays == 0..6

-----------------------------------------------------------------------------
(* goals.js.  userGoals is [goals, history]; a history key is              *)
(* <<goal.id, threshold, day>>; a percentage is kept in tenths.            *)

HISTORY_CAP == 100

RECURSIVE SumOver(_, _)
SumOver(f, S) ==
  IF S = {} THEN 0
  ELSE LET x == CHOOSE y \in S : TRUE IN f[x] + SumOver(f, S \ {x})

\* Object.values(dayData).reduce((sum, time) => sum + time, 0)
DayTotal(td, day) == IF day \in DOMAIN td THEN SumOver(td[day], TrackedDomains) ELSE 0

RECURSIVE SumDays(_, _, _)
SumDays(td, days, domain) ==
  IF days = {} THEN 0
  ELSE LET day == CHOOSE x \in days : TRUE
       IN (IF Truthy(domain) THEN LedgerAt(td, day, domain) ELSE DayTotal(td, day))
            + SumDays(td, days \ {day}, domain)

\* A currentTime that sums all domains whatever the goal is
GoalCurrentTimeAllDomains(goal, td, t) == DayTotal(td, getTodayKey(t))

\* currentTime of getGoalProgress
GoalCurrentTime(goal, td, t) ==
  LET today == getTodayKey(t)
  IN CASE goal.type \in {"daily_limit", "reduction"} ->
            IF Truthy(goal.domain) THEN LedgerAt(td, today, goal.domain) ELSE DayTotal(td, today)
       [] goal.type = "site_limit" -> LedgerAt(td, today, goal.domain)
       [] goal.type = "weekly_limit" ->
            \* new Date(dateKey) >= weekAgo, weekAgo being now minus 7 days
            SumDays(td, {day \in DOMAIN td : day * MS_PER_DAY >= t - 7 * MS_PER_DAY}, goal.domain)
       [] OTHER -> 0

\* Math.round(Math.min(100, (currentTime / targetMs) * 100) * 10), computed in
\* two divisions to stay within 32 bits
Percentage10(currentTime, targetMs) ==
  IF currentTime >= targetMs THEN 1000
  ELSE LET u == 20 * currentTime
           uq == u \div (2 * targetMs)
           ur == u % (2 * targetMs)
       IN 100 * uq + ((100 * ur + targetMs) \div (2 * targetMs))

getGoalProgress(goal, td, t) ==
  LET currentTime == GoalCurrentTime(goal, td, t)
      targetMs == goal.target * 60 * 1000
  IN [ goalId |-> goal.id,
       currentTime |-> currentTime,
       targetTime |-> targetMs,
       percentage10 |-> Percentage10(currentTime, targetMs),
       exceeded |-> currentTime > targetMs ]

\* getAllGoalProgress: the progress of every enabled goal
getAllGoalProgress(goals, td, t) ==
  LET enabled == SelectSeq(goals.goals, LAMBDA g : g.enabled)
  IN [k \in 1..Len(enabled) |-> getGoalProgress(enabled[k], td, t)]

InSeq(x, seq) == \E i \in 1..Len(seq) : seq[i] = x

\* The loop over goal.notifyAt: acc is [history, notifications]
RECURSIVE CheckThresholds(_, _, _, _, _)
CheckThresholds(goal, progress, day, notifyAt, acc) ==
  IF notifyAt = <<>> THEN acc
  ELSE LET threshold == Head(notifyAt)
           notificationKey == <<goal.id, threshold, day>>
           alreadyNotified == InSeq(notificationKey, acc.history)
           next == IF ~alreadyNotified /\ progress.percentage10 >= 10 * threshold
                   THEN [ history |-> Append(acc.history, notificationKey),
                          notifications |-> Append(acc.notifications, notificationKey) ]
                   ELSE acc
       IN CheckThresholds(goal, progress, day, Tail(notifyAt), next)

\* The loop over goals.goals
RECURSIVE CheckGoals(_, _, _, _)
CheckGoals(goalList, td, t, acc) ==
  IF goalList = <<>> THEN acc
  ELSE LET goal == Head(goalList)
           next == IF ~goal.enabled THEN acc
                   ELSE CheckThresholds(goal, getGoalProgress(goal, td, t), getTodayKey(t),
                                        goal.notifyAt, acc)
       IN CheckGoals(Tail(goalList), td, t, next)

\* A pruning that keeps the oldest entries
PruneHistoryKeepOldest(history) ==
  IF Len(history) > HISTORY_CAP THEN SubSeq(history, 1, HISTORY_CAP) ELSE history

\* history.slice(-100) when longer than 100
PruneHistory(history) ==
  IF Len(history) > HISTORY_CAP
  THEN SubSeq(history, Len(history) - HISTORY_CAP + 1, Len(history))
  ELSE history

\* checkGoalNotifications up to its saveGoals: the object it will save and the
\* notifications it will return
checkGoalNotifications(goals, td, t) ==
  LET r == CheckGoals(goals.goals, td, t, [history |-> goals.history, notifications |-> <<>>])
  IN [ goals |-> [goals EXCEPT !.history = PruneHistory(r.history)],
       notifications |-> r.notifications ]

\* deleteGoal up to its saveGoals: <<changed, the object it will save>>
deleteGoal(goals, goalId) ==
  LET kept == SelectSeq(goals.goals, LAMBDA g : g.id # goalId)
  IN [ changed |-> Len(kept) # Len(goals.goals), goals |-> [goals EXCEPT !.goals = kept] ]

DEFAULT_GOALS == [goals |-> <<>>, history |-> <<>>]

Goal(id, type, target, domain, notifyAt) ==
  [ id |-> id, type |-> type, target |-> target, domain |-> domain,
    notifyAt |-> notifyAt, enabled |-> TRUE ]

-----------------------------------------------------------------------------
(* config.js: DEFAULT_CONFIG *)

Infinity == 2147483647

DEFAULT_CONFIG ==
  [ popupEnabled |-> TRUE,
    trackingPaused |-> FALSE,
    minTimeBeforePopup |-> 5 * 60 * 1000,
    popupCooldown |-> 3 * 60 * 1000,
    thresholds |-> [medium |-> 15 * 60 * 1000, high |-> 30 * 60 * 1000, veryHigh |-> Infinity],
    intervals |-> [medium |-> 10 * 60 * 1000, high |-> 5 * 60 * 1000, veryHigh |-> 3 * 60 * 1000] ]

SNOOZE_DEFAULT == 5 * 60 * 1000

-----------------------------------------------------------------------------
(* service-worker.js: checkPopupTrigger.  Each execution is a record whose *)
(* pc names the await it is suspended at.                                  *)

\* A minimum time that ignores the multiplier
AdjustedMinTimeUnscaled(minTime, m) == minTime

\* Math.round(minTime * multiplier)
AdjustedMinTime(minTime, m) == (2 * minTime * m.n + m.d) \div (2 * m.d)

\* A tier choice that tests the tiers from the lowest upward
TierOfLowestFirst(cfg, timeSpent) ==
  IF timeSpent >= cfg.thresholds.medium THEN <<TRUE, cfg.intervals.medium>>
  ELSE IF timeSpent >= cfg.thresholds.high THEN <<TRUE, cfg.intervals.high>>
  ELSE IF timeSpent >= cfg.thresholds.veryHigh THEN <<TRUE, cfg.intervals.veryHigh>>
  ELSE <<FALSE, cfg.intervals.veryHigh>>

\* The tier chosen from timeSpent: <<shouldPopup, interval>>
TierOf(cfg, timeSpent) ==
  IF timeSpent >= cfg.thresholds.veryHigh THEN <<TRUE, cfg.intervals.veryHigh>>
  ELSE IF timeSpent >= cfg.thresholds.high THEN <<TRUE, cfg.intervals.high>>
  ELSE IF timeSpent >= cfg.thresholds.medium THEN <<TRUE, cfg.intervals.medium>>
  ELSE <<FALSE, cfg.intervals.veryHigh>>

\* if (lastPopupDomain === domain && Date.now() - lastPopupTime < cooldown) return
InCooldown(cfg, domain, lastDomain, lastTime, t) ==
  lastDomain = domain /\ t - lastTime < cfg.popupCooldown

\* if (timeSinceLastPopup >= interval || lastPopupDomain !== domain)
MayFire(domain, lastDomain, lastTime, interval, t) ==
  t - lastTime >= interval \/ lastDomain # domain

IdleTick ==
  [ pc |-> "idle", cfg |-> DEFAULT_CONFIG, tabId |-> 0, domain |-> NULL, timeSpent |-> 0,
    lastTime |-> 0, lastDomain |-> NULL, goals |-> DEFAULT_GOALS, notifications |-> <<>>,
    faulty |-> FALSE ]

\* No step fails
NoFault == [step |-> "none", at |-> NoTime]

\* The step fails in this execution of checkPopupTrigger
Fails(faulty, f, step) == faulty /\ f.step = step

\* A timer that is armed again only by a callback that returns
setTimeoutChain(due, rejected) == IF rejected THEN NoTime ELSE due + TICK_INTERVAL

\* setInterval: the timer stays armed whatever its callback does
setInterval(due, rejected) == due + TICK_INTERVAL

IdleDelete == [pc |-> "idle", goalId |-> NULL, goals |-> DEFAULT_GOALS]

NoResponse == [action |-> "none"]

\* showNotification: notifications.create inside try/catch; an error is logged
\* and null is returned
showNotification(ch) ==
  [attempts |-> 1, shown |-> ch.notification, threw |-> FALSE]

\* A triggerPopup that has no fallback
triggerPopupNoFallback(ch) ==
  [overlay |-> ch.overlay, notifications |-> 0, shown |-> ch.overlay, threw |-> FALSE]

\* triggerPopup: tabs.sendMessage, and showNotification when it fails
triggerPopup(ch) ==
  IF ch.overlay
    THEN [overlay |-> TRUE, notifications |-> 0, shown |-> TRUE, threw |-> FALSE]
    ELSE LET n == showNotification(ch)
         IN [overlay |-> FALSE, notifications |-> n.attempts, shown |-> n.shown,
             threw |-> n.threw]

-----------------------------------------------------------------------------
(* The state after the service worker starts: nothing tracked yet, the     *)
(* window not focused; storage holds what earlier runs left.               *)

MaxTicks == 2
TickIds == 1..MaxTicks

trackerVars == <<activeTab, startTime, currentDomain, trackingInterval, timeData>>
browserVars == <<tabUrl, browserActive, windowFocused>>
configVars == <<config, schedulerConfig>>
popupVars == <<lastPopupTime, lastPopupDomain, snoozeUntil>>
goalVars == <<userGoals, deleting>>
tickVars == <<popupCheckInterval, ticks>>
historyVars == <<trueActive, popups, notified, response>>
\* State of the handlers and modules that the actions above neither read nor write
moduleVars == <<stopping, focus, writer, retrying>>
deliveryVars == <<channels, fault, delivered, resetting, storage, moduleVars>>
vars ==
  <<now, tabUrl, browserActive, windowFocused, activeTab, startTime, currentDomain,
    trackingInterval, timeData, config, schedulerConfig, lastPopupTime, lastPopupDomain,
    snoozeUntil, userGoals, popupCheckInterval, ticks, deleting, trueActive, popups,
    notified, response, channels, fault, delivered, resetting, storage, moduleVars>>

\* handleTabInactive: the executions that may be in progress at once
HandlerIds == {1, 2}

\* No execution of handleTabInactive; elapsed and todayKey are the constants
\* stopTracking computes before its first await
IdleStop == [pc |-> "idle", elapsed |-> 0, todayKey |-> 0]

\* focus-sessions.js: DEFAULT_FOCUS_STATE (currentSession null is <<>>)
DEFAULT_FOCUS_STATE ==
  [ settings |-> [focusDuration |-> 25 * 60 * 1000, shortBreakDuration |-> 5 * 60 * 1000],
    currentSession |-> <<>>,
    sessionHistory |-> <<>>,
    todayStats |-> [date |-> getTodayKey(BootTime), focusTime |-> 0, breakTime |-> 0, sessionsCompleted |-> 0] ]

WriterKeys == {"k1", "k2"}

\* new BatchedStorageWriter(), over empty storage.  Values are numbered from
\* 1 in the order of the write calls; 0 is no value.  flushTimer is "null",
\* "armed", or "fired" (the id of a timer that has run); flights are the
\* flushes awaiting Promise.all; last is the latest value given to write.
IdleWriter ==
  [ pending |-> [k \in WriterKeys |-> 0],
    flushTimer |-> "null",
    flights |-> <<>>,
    persisted |-> [k \in WriterKeys |-> 0],
    last |-> [k \in WriterKeys |-> 0],
    writes |-> 0,
    failures |-> 0 ]

\* withRetry is not running
IdleRetry ==
  [ pc |-> "idle", maxRetries |-> 0, delay |-> 0, backoff |-> 1, attempt |-> 0,
    currentDelay |-> 0, calls |-> 0, waits |-> <<>>, outcome |-> "none", logged |-> FALSE ]

InitModules ==
  /\ stopping = [h \in HandlerIds |-> IdleStop]
  /\ focus = DEFAULT_FOCUS_STATE
  /\ writer = IdleWriter
  /\ retrying = IdleRetry

-----------------------------------------------------------------------------
(* withRetry, on the state R of one execution *)

\* b to the power k
RECURSIVE Pow(_, _)
Pow(b, k) == IF k = 0 THEN 1 ELSE b * Pow(b, k - 1)

\* withRetry up to the first operation(): the options and currentDelay = delay
withRetry(maxRetries, delay, backoff) ==
  [IdleRetry EXCEPT !.pc = "calling", !.maxRetries = maxRetries, !.delay = delay,
                    !.backoff = backoff, !.currentDelay = delay]

\* await operation() settles: return on success; in the catch, the wait of
\* currentDelay while attempt < maxRetries, and past the loop otherwise
attempted(R, ok) ==
  LET called == [R EXCEPT !.calls = R.calls + 1]
  IN IF ok THEN [called EXCEPT !.pc = "done", !.outcome = "returned"]
     ELSE IF R.attempt < R.maxRetries
          THEN [called EXCEPT !.pc = "waiting", !.waits = Append(R.waits, R.currentDelay)]
          ELSE [called EXCEPT !.pc = "logging", !.attempt = R.attempt + 1]

\* The setTimeout of the wait fires: currentDelay *= backoff; attempt++
woken(R) ==
  [R EXCEPT !.pc = "calling", !.currentDelay = R.currentDelay * R.backoff,
            !.attempt = R.attempt + 1]

\* await logError(lastError, ...); throw lastError
exhausted(R) == [R EXCEPT !.pc = "done", !.logged = TRUE, !.outcome = "threw"]

-----------------------------------------------------------------------------
(* BatchedStorageWriter, on its state W *)

\* The writes and the rejected flushes that are followed
MaxWrites == 3
MaxFlushFailures == 1

PendingKeys(W) == {k \in WriterKeys : W.pending[k] # 0}

\* scheduleFlush: if (this.flushTimer) return
scheduleFlush(W) ==
  IF W.flushTimer # "null" THEN W ELSE [W EXCEPT !.flushTimer = "armed"]

write(W, key) ==
  LET value == W.writes + 1
  IN scheduleFlush([W EXCEPT !.pending[key] = value, !.last[key] = value, !.writes = value])

\* flush up to its await: the batch is taken, pending cleared, the timer
\* forgotten, and setStorageValue called for each entry; storage applies the
\* calls of the set applied, and rejects one of the others when rejected
flush(W, rejected, applied) ==
  IF PendingKeys(W) = {} THEN W
  ELSE [W EXCEPT !.pending = [k \in WriterKeys |-> 0],
                 !.flushTimer = "null",
                 !.persisted = [k \in WriterKeys |->
                                  IF k \in applied THEN W.pending[k] ELSE W.persisted[k]],
                 !.flights = Append(W.flights, [toWrite |-> W.pending, rejected |-> rejected]),
                 !.failures = IF rejected THEN W.failures + 1 ELSE W.failures]

\* flush after its await: the catch puts every entry of the batch back
settle(W, i) ==
  LET flight == W.flights[i]
      rest == [j \in 1..Len(W.flights) - 1 |-> W.flights[IF j < i THEN j ELSE j + 1]]
  IN IF flight.rejected
     THEN [W EXCEPT !.flights = rest,
                    !.pending = [k \in WriterKeys |->
                                   IF flight.toWrite[k] # 0 THEN flight.toWrite[k]
                                   ELSE W.pending[k]]]
     ELSE [W EXCEPT !.flights = rest]

\* The outcomes storage may give a flush of the pending batch
FlushOutcomes(W) ==
  { <<FALSE, PendingKeys(W)>> } \cup
  { <<TRUE, applied>> : applied \in
      IF W.failures < MaxFlushFailures THEN (SUBSET PendingKeys(W)) \ {PendingKeys(W)} ELSE {} }

-----------------------------------------------------------------------------
(* focus-sessions.js, on the stored state F; each operation gives the      *)
(* state it saves (F itself when it saves nothing) and what it returns.    *)

\* getFocusState: todayStats is reset when its date is not today
getFocusState(F, t) ==
  IF F.todayStats.date # getTodayKey(t)
  THEN [F EXCEPT !.todayStats = [date |-> getTodayKey(t), focusTime |-> 0, breakTime |-> 0,
                                 sessionsCompleted |-> 0]]
  ELSE F

SessionDuration(F, type) ==
  IF type = "short_break" THEN F.settings.shortBreakDuration ELSE F.settings.focusDuration

\* startFocusSession: throws when the current session is active
startFocusSession(F, type, t) ==
  LET state == getFocusState(F, t)
  IN IF state.currentSession # <<>> /\ state.currentSession[1].status = "active"
     THEN [threw |-> TRUE, state |-> F]
     ELSE [threw |-> FALSE,
           state |-> [state EXCEPT !.currentSession =
                        << [ id |-> t, type |-> type, duration |-> SessionDuration(state, type),
                             startTime |-> t, endTime |-> NoTime, pausedTime |-> 0,
                             pauseStart |-> NoTime, status |-> "active", interruptions |-> 0,
                             actualDuration |-> NoTime ] >>]]

pauseSession(F, t) ==
  LET state == getFocusState(F, t)
  IN IF state.currentSession = <<>> \/ state.currentSession[1].status # "active"
     THEN F
     ELSE [state EXCEPT !.currentSession[1].status = "paused",
                        !.currentSession[1].pauseStart = t,
                        !.currentSession[1].interruptions = @ + 1]

resumeSession(F, t) ==
  LET state == getFocusState(F, t)
  IN IF state.currentSession = <<>> \/ state.currentSession[1].status # "paused"
     THEN F
     ELSE [state EXCEPT !.currentSession[1].pausedTime = @ + (t - state.currentSession[1].pauseStart),
                        !.currentSession[1].pauseStart = NoTime,
                        !.currentSession[1].status = "active"]

\* sessionHistory.unshift(session), then length = 100 when longer
UnshiftCapped(history, session) ==
  LET h == <<session>> \o history
  IN IF Len(h) > 100 THEN SubSeq(h, 1, 100) ELSE h

completeSession(F, t) ==
  LET state == getFocusState(F, t)
  IN IF state.currentSession = <<>> THEN F
     ELSE LET cur == state.currentSession[1]
              actualDuration == t - cur.startTime - cur.pausedTime
              session == [cur EXCEPT !.endTime = t, !.status = "completed",
                                     !.actualDuration = actualDuration]
              stats == state.todayStats
              stats1 == IF session.type = "focus"
                        THEN [stats EXCEPT !.focusTime = @ + actualDuration,
                                           !.sessionsCompleted = @ + 1]
                        ELSE [stats EXCEPT !.breakTime = @ + actualDuration]
          IN [state EXCEPT !.todayStats = stats1,
                           !.sessionHistory = UnshiftCapped(state.sessionHistory, session),
                           !.currentSession = <<>>]

cancelSession(F, t) ==
  LET state == getFocusState(F, t)
  IN IF state.currentSession = <<>> THEN F
     ELSE LET session == [state.currentSession[1] EXCEPT !.endTime = t, !.status = "cancelled"]
          IN [state EXCEPT !.sessionHistory = <<session>> \o state.sessionHistory,
                           !.currentSession = <<>>]

\* JavaScript values as storage holds them: one record shape for every type
JsValue(type, num, bool, str, obj) ==
  [type |-> type, num |-> num, bool |-> bool, str |-> str, obj |-> obj]
JsUndefined == JsValue("undefined", 0, FALSE, "", <<>>)
JsNull == JsValue("null", 0, FALSE, "", <<>>)
JsNumber(n) == JsValue("number", n, FALSE, "", <<>>)
JsBoolean(b) == JsValue("boolean", 0, b, "", <<>>)
JsString(str) == JsValue("string", 0, FALSE, str, <<>>)
JsObject(obj) == JsValue("object", 0, FALSE, "", obj)

JsTruthy(v) ==
  CASE v.type = "number" -> v.num # 0
    [] v.type = "boolean" -> v.bool
    [] v.type = "string" -> v.str # ""
    [] v.type = "object" -> TRUE
    [] OTHER -> FALSE

\* v || w
OrElse(v, w) == IF JsTruthy(v) THEN v ELSE w

StorageKeys == {"config", "testKey"}

\* A key never stored reads as undefined
EmptyStorage == [k \in StorageKeys |-> JsUndefined]

\* storage.js: getStorageValue, resolve(result[key] || null)
getStorageValue(st, key) == OrElse(st[key], JsNull)

\* storage.js: setStorageValue
setStorageValue(st, key, value) == [st EXCEPT ![key] = value]

\* storage.js: getConfig, config || {}
getConfig(st) == OrElse(getStorageValue(st, "config"), JsObject(<<>>))

InitTracker ==
  /\ now = BootTime
  /\ browserActive = 1
  /\ windowFocused = FALSE
  /\ activeTab = <<>>
  /\ startTime = NoTime
  /\ currentDomain = NULL
  /\ trackingInterval = NoTime
  /\ trueActive = 0

InitPopups ==
  /\ lastPopupTime = 0
  /\ lastPopupDomain = NULL
  /\ snoozeUntil = 0
  /\ ticks = [i \in TickIds |-> IdleTick]
  /\ deleting = IdleDelete
  /\ popups = <<>>
  /\ notified = <<>>
  /\ response = NoResponse
  /\ channels = [overlay |-> TRUE, notification |-> TRUE]
  /\ fault = NoFault
  /\ delivered = <<>>
  /\ resetting = IdleReset(NoTime)
  /\ storage = EmptyStorage
  /\ InitModules

\* The ledger's storage rejects its reads and writes at this time
FlushFails == fault.step = "flush" /\ now = fault.at

SetTracker(T) ==
  /\ activeTab' = T.activeTab
  /\ startTime' = T.startTime
  /\ currentDomain' = T.currentDomain
  /\ trackingInterval' = T.trackingInterval
  /\ timeData' = T.timeData

\* The tracker is meant to run: a tracked site is the focused active tab, and
\* tracking is neither paused nor blocked by a schedule.
ShouldAccumulate ==
  /\ windowFocused
  /\ isTrackedSite(tabUrl[browserActive])
  /\ ~config.trackingPaused
  /\ ~shouldBlockTracking(schedulerConfig, now)

\* No timer is due: timers fire on time.
NoTimerDue ==
  /\ trackingInterval = NoTime \/ now < trackingInterval
  /\ popupCheckInterval = NoTime \/ now < popupCheckInterval

\* Storage, scheduler and goal awaits are short against the clock's step: the
\* only await that time passes at is the delivery of a popup.
NoShortAwait ==
  /\ \A i \in TickIds : ticks[i].pc \in {"idle", "triggerPopup"}
  /\ deleting.pc = "idle"
  /\ resetting.pc = "idle"
  /\ \A h \in HandlerIds : stopping[h].pc = "idle"

AdvanceClock(horizon) ==
  /\ now + Step <= horizon
  /\ NoTimerDue
  /\ NoShortAwait
  /\ now' = now + Step
  /\ UNCHANGED <<browserVars, trackerVars, configVars, popupVars, goalVars, tickVars,
                 popups, notified, response, deliveryVars>>

\* Time passes, and is counted when the tracker is meant to run.
Advance ==
  /\ AdvanceClock(Horizon)
  /\ trueActive' = trueActive + (IF ShouldAccumulate THEN Step ELSE 0)

\* Time passes (the history of true active time is not kept).
AdvanceUncounted ==
  /\ AdvanceClock(TickHorizon)
  /\ trueActive' = trueActive

\* tabs.onActivated: the user switches to another tab of the focused window.
TabActivated(tabId) ==
  /\ windowFocused
  /\ tabId # browserActive
  /\ browserActive' = tabId
  /\ SetTracker(IF FlushFails
                THEN updateActiveTabRejected(Tracker, tabId, tabUrl[tabId],
                                             isTrackedSite(tabUrl[tabId]), now)
                ELSE updateActiveTab(Tracker, tabId, tabUrl[tabId],
                                     isTrackedSite(tabUrl[tabId]), now))
  /\ UNCHANGED <<now, tabUrl, windowFocused, configVars, popupVars, goalVars, tickVars,
                 historyVars, deliveryVars>>

\* tabs.onUpdated with status 'complete': a tab finished loading url.
TabUpdated(tabId, url) ==
  /\ tabUrl' = [tabUrl EXCEPT ![tabId] = url]
  /\ SetTracker(IF FlushFails
                THEN handleTabUpdateRejected(Tracker, tabId, url, isTrackedSite(url), now)
                ELSE handleTabUpdate(Tracker, tabId, url, isTrackedSite(url), now))
  /\ UNCHANGED <<now, browserActive, windowFocused, configVars, popupVars, goalVars,
                 tickVars, historyVars, deliveryVars>>

\* tabs.onRemoved: a tab is closed (its slot then holds a fresh tab).  Closing
\* the active tab makes the browser activate the other one, whose onActivated
\* handler runs next.
TabRemoved(tabId) ==
  /\ tabUrl' = [tabUrl EXCEPT ![tabId] = StartUrl]
  /\ IF tabId = browserActive
     THEN /\ windowFocused
          /\ \E other \in TabIds \ {tabId} :
               /\ browserActive' = other
               /\ SetTracker(IF FlushFails
                             THEN updateActiveTabRejected(handleTabInactiveRejected(Tracker, now),
                                    other, tabUrl[other], isTrackedSite(tabUrl[other]), now)
                             ELSE updateActiveTab(handleTabInactive(Tracker, now), other,
                                    tabUrl[other], isTrackedSite(tabUrl[other]), now))
     ELSE /\ browserActive' = browserActive
          /\ SetTracker(IF FlushFails THEN handleTabInactiveRejected(Tracker, now)
                        ELSE handleTabInactive(Tracker, now))
  /\ UNCHANGED <<now, windowFocused, configVars, popupVars, goalVars, tickVars, historyVars, deliveryVars>>

\* windows.onFocusChanged
WindowFocusChanged ==
  /\ windowFocused' = ~windowFocused
  /\ IF windowFocused
     THEN SetTracker(IF FlushFails THEN handleTabInactiveRejected(Tracker, now)
                     ELSE handleTabInactive(Tracker, now))
     ELSE SetTracker(IF FlushFails
                     THEN updateActiveTabRejected(Tracker, browserActive, tabUrl[browserActive],
                                                  isTrackedSite(tabUrl[browserActive]), now)
                     ELSE updateActiveTab(Tracker, browserActive, tabUrl[browserActive],
                                          isTrackedSite(tabUrl[browserActive]), now))
  /\ UNCHANGED <<now, tabUrl, browserActive, configVars, popupVars, goalVars, tickVars,
                 historyVars, deliveryVars>>

\* The periodic save timer of updateActiveTab fires.
PeriodicSave ==
  /\ trackingInterval # NoTime
  /\ now >= trackingInterval
  /\ SetTracker([(IF FlushFails THEN periodicSaveRejected(Tracker, now)
                  ELSE periodicSave(Tracker, now))
                   EXCEPT !.trackingInterval = trackingInterval + FLUSH_INTERVAL])
  /\ UNCHANGED <<now, browserVars, configVars, popupVars, goalVars, tickVars, historyVars, deliveryVars>>

\* Time passes over the shorter horizon, and is counted when the tracker is
\* meant to run.
AdvanceCounted ==
  /\ AdvanceClock(TickHorizon)
  /\ trueActive' = trueActive + (IF ShouldAccumulate THEN Step ELSE 0)

\* stopTracking after getTimeData: timeData[todayKey][currentDomain] += elapsed
\* on the copy read, currentDomain being read now (null names the key "null")
AddElapsed(td, todayKey, domain, elapsed) ==
  LET td1 == IF todayKey \in DOMAIN td THEN td ELSE td @@ (todayKey :> EmptyDay)
      day == td1[todayKey]
      day1 == IF domain \in DOMAIN day
              THEN [day EXCEPT ![domain] = @ + elapsed]
              ELSE day @@ (domain :> elapsed)
  IN [td1 EXCEPT ![todayKey] = day1]

\* tabs.onRemoved of the background tab, or windows.onFocusChanged with
\* WINDOW_ID_NONE: handleTabInactive up to the first await of stopTracking,
\* or to its end when stopTracking returns at its guard
InactiveStart(h, cause) ==
  /\ stopping[h].pc = "idle"
  /\ cause = "blur" => windowFocused
  /\ windowFocused' = IF cause = "blur" THEN FALSE ELSE windowFocused
  /\ tabUrl' = IF cause = "removed"
               THEN [t \in TabIds |-> IF t = browserActive THEN tabUrl[t] ELSE StartUrl]
               ELSE tabUrl
  /\ IF ~Truthy(currentDomain) \/ ~TruthyNum(startTime)
     THEN /\ activeTab' = <<>>
          /\ trackingInterval' = NoTime
          /\ UNCHANGED stopping
     ELSE /\ stopping' = [stopping EXCEPT ![h] = [pc |-> "getTimeData",
                                                   elapsed |-> now - startTime,
                                                   todayKey |-> getTodayKey(now)]]
          /\ UNCHANGED <<activeTab, trackingInterval>>
  /\ UNCHANGED <<now, browserActive, startTime, currentDomain, timeData, configVars, popupVars,
                 goalVars, tickVars, historyVars, channels, fault, delivered, resetting,
                 storage, focus, writer, retrying>>

\* stopTracking: getTimeData has resolved; the span is added and saveTimeData called
InactiveRead(h) ==
  /\ stopping[h].pc = "getTimeData"
  /\ timeData' = AddElapsed(timeData, stopping[h].todayKey, currentDomain, stopping[h].elapsed)
  /\ stopping' = [stopping EXCEPT ![h].pc = "saveTimeData"]
  /\ UNCHANGED <<now, browserVars, activeTab, startTime, currentDomain, trackingInterval,
                 configVars, popupVars, goalVars, tickVars, historyVars, channels, fault,
                 delivered, resetting, storage, focus, writer, retrying>>

\* stopTracking: saveTimeData has resolved; the session is reset, then the
\* rest of handleTabInactive
InactiveSaved(h) ==
  /\ stopping[h].pc = "saveTimeData"
  /\ currentDomain' = NULL
  /\ startTime' = NoTime
  /\ activeTab' = <<>>
  /\ trackingInterval' = NoTime
  /\ stopping' = [stopping EXCEPT ![h] = IdleStop]
  /\ UNCHANGED <<now, browserVars, timeData, configVars, popupVars, goalVars, tickVars,
                 historyVars, channels, fault, delivered, resetting, storage, focus, writer,
                 retrying>>

\* windows.onFocusChanged with a window id
FocusGained == ~windowFocused /\ WindowFocusChanged

\* The sessions started since BootTime, and the pauses of the current one,
\* are followed up to these numbers
MaxSessions == 2
MaxInterruptions == 1

StartedSessions ==
  Cardinality({k \in 1..Len(focus.sessionHistory) : focus.sessionHistory[k].startTime >= BootTime})
    + Len(focus.currentSession)

FocusUnchanged ==
  UNCHANGED <<now, browserVars, trackerVars, configVars, popupVars, goalVars, tickVars,
              trueActive, popups, notified, channels, fault, delivered, resetting, storage,
              stopping, writer, retrying>>

\* onMessage 'startFocusSession': a throw is answered { success: false }
StartFocusSession(type) ==
  /\ StartedSessions < MaxSessions
  /\ LET r == startFocusSession(focus, type, now)
     IN /\ focus' = r.state
        /\ response' = [action |-> "startFocusSession", success |-> ~r.threw]
  /\ FocusUnchanged

PauseSession ==
  /\ focus.currentSession # <<>> => focus.currentSession[1].interruptions < MaxInterruptions
  /\ focus' = pauseSession(focus, now)
  /\ UNCHANGED response
  /\ FocusUnchanged

ResumeSession ==
  /\ focus' = resumeSession(focus, now)
  /\ UNCHANGED response
  /\ FocusUnchanged

\* onMessage 'stopFocusSession'
CompleteSession ==
  /\ focus' = completeSession(focus, now)
  /\ UNCHANGED response
  /\ FocusUnchanged

CancelSession ==
  /\ focus' = cancelSession(focus, now)
  /\ UNCHANGED response
  /\ FocusUnchanged

RetryUnchanged ==
  UNCHANGED <<now, browserVars, trackerVars, configVars, popupVars, goalVars, tickVars,
              historyVars, channels, fault, delivered, resetting, storage, stopping, focus,
              writer>>

\* A caller awaits withRetry(operation, {maxRetries, delay, backoff})
WithRetry(maxRetries, delay, backoff) ==
  /\ retrying.pc \in {"idle", "done"}
  /\ retrying' = withRetry(maxRetries, delay, backoff)
  /\ RetryUnchanged

\* The operation resolves or rejects
RetryAttempt(ok) ==
  /\ retrying.pc = "calling"
  /\ retrying' = attempted(retrying, ok)
  /\ RetryUnchanged

RetryWake ==
  /\ retrying.pc = "waiting"
  /\ retrying' = woken(retrying)
  /\ RetryUnchanged

RetryExhausted ==
  /\ retrying.pc = "logging"
  /\ retrying' = exhausted(retrying)
  /\ RetryUnchanged

WriterUnchanged ==
  UNCHANGED <<now, browserVars, trackerVars, configVars, popupVars, goalVars, tickVars,
              historyVars, channels, fault, delivered, resetting, storage, stopping, focus,
              retrying>>

\* batchedWriter.write(key, value)
WriterWrite(key) ==
  /\ writer.writes < MaxWrites
  /\ writer' = write(writer, key)
  /\ WriterUnchanged

\* The setTimeout callback of scheduleFlush: flush(), which leaves the id of
\* the timer in place when nothing is pending
WriterTimer ==
  /\ writer.flushTimer = "armed"
  /\ IF PendingKeys(writer) = {}
     THEN writer' = [writer EXCEPT !.flushTimer = "fired"]
     ELSE \E o \in FlushOutcomes(writer) : writer' = flush(writer, o[1], o[2])
  /\ WriterUnchanged

\* batchedWriter.forceFlush(), up to the await of flush
WriterForceFlush ==
  /\ \E o \in FlushOutcomes(writer) :
       writer' = flush([writer EXCEPT !.flushTimer = "null"], o[1], o[2])
  /\ WriterUnchanged

\* Promise.all of a flush settles
WriterSettle(i) ==
  /\ i \in 1..Len(writer.flights)
  /\ writer' = settle(writer, i)
  /\ WriterUnchanged

\* checkDailyReset, when the day of the last reset is not today, up to the
\* getTimeData of resetDailyData
ResetRead ==
  /\ resetting.pc = "idle"
  /\ resetting.dailyReset # getTodayKey(now)
  /\ resetting' = [resetting EXCEPT !.pc = "saveTimeData", !.timeData = timeData]
  /\ UNCHANGED <<now, browserVars, trackerVars, configVars, popupVars, goalVars, tickVars,
                 historyVars, channels, fault, delivered, storage, moduleVars>>

\* resetDailyData: the old days are deleted from the object read and it is
\* saved; checkDailyReset then stores the day
ResetSave ==
  /\ resetting.pc = "saveTimeData"
  /\ timeData' = PruneOldDays(resetting.timeData, now)
  /\ resetting' = IdleReset(getTodayKey(now))
  /\ UNCHANGED <<now, browserVars, activeTab, startTime, currentDomain, trackingInterval,
                 configVars, popupVars, goalVars, tickVars, historyVars, channels, fault,
                 delivered, storage, moduleVars>>

\* onMessage 'pauseTracking'
PauseTracking ==
  /\ config' = [config EXCEPT !.trackingPaused = TRUE]
  /\ SetTracker(handleTabInactive(Tracker, now))
  /\ UNCHANGED <<now, browserVars, schedulerConfig, popupVars, goalVars, tickVars, historyVars, deliveryVars>>

\* onMessage 'resumeTracking'
ResumeTracking ==
  /\ config' = [config EXCEPT !.trackingPaused = FALSE]
  /\ SetTracker(updateActiveTab(Tracker, browserActive, tabUrl[browserActive],
                                isTrackedSite(tabUrl[browserActive]), now))
  /\ UNCHANGED <<now, browserVars, schedulerConfig, popupVars, goalVars, tickVars, historyVars, deliveryVars>>

\* onMessage 'snoozePopups' with the default duration
SnoozePopups ==
  /\ snoozeUntil' = now + SNOOZE_DEFAULT
  /\ UNCHANGED <<now, browserVars, trackerVars, configVars, lastPopupTime, lastPopupDomain,
                 goalVars, tickVars, historyVars, deliveryVars>>

\* onMessage 'deleteGoal': getGoals
DeleteGoalRead(goalId) ==
  /\ deleting.pc = "idle"
  /\ deleting' = [pc |-> "saveGoals", goalId |-> goalId, goals |-> userGoals]
  /\ UNCHANGED <<now, browserVars, trackerVars, configVars, popupVars, userGoals, tickVars,
                 historyVars, deliveryVars>>

\* onMessage 'deleteGoal': the filter and saveGoals
DeleteGoalSave ==
  /\ deleting.pc = "saveGoals"
  /\ LET r == deleteGoal(deleting.goals, deleting.goalId)
     IN userGoals' = IF r.changed THEN r.goals ELSE userGoals
  /\ deleting' = IdleDelete
  /\ UNCHANGED <<now, browserVars, trackerVars, configVars, popupVars, tickVars, historyVars, deliveryVars>>

\* onMessage 'getTimeSpent'
GetTimeSpent(domain) ==
  /\ response' = [action |-> "getTimeSpent", domain |-> domain,
                   timeSpent |-> getTimeSpentToday(Tracker, domain, now)]
  /\ SetTracker(ReadEffect(Tracker, now))
  /\ UNCHANGED <<now, browserVars, configVars, popupVars, goalVars, tickVars,
                 trueActive, popups, notified, deliveryVars>>

\* onMessage 'getTodayStats'
GetTodayStats ==
  /\ response' = [action |-> "getTodayStats", stats |-> getTodayStats(Tracker, now)]
  /\ SetTracker(ReadEffect(Tracker, now))
  /\ UNCHANGED <<now, browserVars, configVars, popupVars, goalVars, tickVars,
                 trueActive, popups, notified, deliveryVars>>

\* onMessage 'getSchedulerStatus'; an exception of getScheduleSummary is
\* caught and answered with { summary: { enabled: false } }
GetSchedulerStatus ==
  /\ response' = [action |-> "getSchedulerStatus",
                   summary |-> IF getScheduleSummaryThrows(schedulerConfig, now)
                               THEN [enabled |-> FALSE]
                               ELSE getScheduleSummary(schedulerConfig, now)]
  /\ UNCHANGED <<now, browserVars, trackerVars, configVars, popupVars, goalVars, tickVars,
                 trueActive, popups, notified, deliveryVars>>

\* onMessage 'getGoalProgress'
GetGoalProgress ==
  /\ response' = [action |-> "getGoalProgress",
                   progress |-> getAllGoalProgress(userGoals, timeData, now)]
  /\ UNCHANGED <<now, browserVars, trackerVars, configVars, popupVars, goalVars, tickVars,
                 trueActive, popups, notified, deliveryVars>>

\* onMessage: the listener's state for one message, sent being the
\* arguments sendResponse was invoked with
NoReply == [responseSent |-> FALSE, sent |-> <<>>]

safeSendResponse(reply, data) ==
  IF reply.responseSent THEN reply
  ELSE [responseSent |-> TRUE, sent |-> Append(reply.sent, data)]

RECURSIVE SendAll(_, _)
SendAll(reply, calls) ==
  IF calls = <<>> THEN reply
  ELSE SendAll(safeSendResponse(reply, Head(calls)), Tail(calls))

\* Storage rejects the calls of the handler of the message received now
MessageFails == fault.step = "message" /\ now = fault.at

StorageError == "storage error"

MessageActions ==
  {"getTimeSpent", "getGoalProgress", "getSchedulerStatus", "shouldSuppressPopups",
   "snoozePopups", "unknownAction"}

\* The case of the switch throws before its safeSendResponse
HandlerThrows(message) ==
  CASE message.action \in {"getTimeSpent", "getGoalProgress", "snoozePopups"} -> MessageFails
    [] message.action = "getSchedulerStatus" ->
         MessageFails \/ getScheduleSummaryThrows(schedulerConfig, now)
    [] message.action = "shouldSuppressPopups" ->
         MessageFails \/ shouldSuppressPopupsThrows(schedulerConfig, now)
    [] OTHER -> FALSE

\* onMessage: the safeSendResponse calls on the path the switch takes, the
\* catch of the case where it has one, the outer catch otherwise
MessageCalls(message) ==
  LET threw == HandlerThrows(message)
  IN CASE message.action = "getTimeSpent" ->
            IF threw THEN << [error |-> StorageError] >>
            ELSE << [timeSpent |-> getTimeSpentToday(Tracker, message.domain, now)] >>
       [] message.action = "getGoalProgress" ->
            IF threw THEN << [progress |-> <<>>] >>
            ELSE << [progress |-> getAllGoalProgress(userGoals, timeData, now)] >>
       [] message.action = "getSchedulerStatus" ->
            IF threw THEN << [summary |-> [enabled |-> FALSE]] >>
            ELSE << [summary |-> getScheduleSummary(schedulerConfig, now)] >>
       [] message.action = "shouldSuppressPopups" ->
            IF threw THEN << [suppress |-> FALSE] >>
            ELSE << [suppress |-> shouldSuppressPopups(schedulerConfig, now)] >>
       [] message.action = "snoozePopups" ->
            IF threw THEN << [success |-> FALSE, error |-> StorageError] >>
            ELSE << [success |-> TRUE, snoozeUntil |-> now + SNOOZE_DEFAULT] >>
       [] OTHER -> << [error |-> "Unknown action"] >>

\* onMessage: one message through the listener
OnMessage(message) ==
  /\ response' = [action |-> message.action, threw |-> HandlerThrows(message),
                   sent |-> SendAll(NoReply, MessageCalls(message)).sent]
  /\ snoozeUntil' = IF message.action = "snoozePopups" /\ ~HandlerThrows(message)
                     THEN now + SNOOZE_DEFAULT ELSE snoozeUntil
  /\ UNCHANGED <<now, browserVars, trackerVars, configVars, lastPopupTime, lastPopupDomain,
                 goalVars, tickVars, trueActive, popups, notified, deliveryVars>>

StorageUnchanged ==
  UNCHANGED <<now, browserVars, trackerVars, configVars, popupVars, goalVars, tickVars,
              trueActive, popups, notified, channels, fault, delivered, resetting,
              moduleVars>>

\* await setStorageValue(key, value)
SetStorageValue(key, value) ==
  /\ storage' = setStorageValue(storage, key, value)
  /\ UNCHANGED response
  /\ StorageUnchanged

\* await getStorageValue(key)
GetStorageValue(key) ==
  /\ response' = [action |-> "getStorageValue", key |-> key,
                   value |-> getStorageValue(storage, key)]
  /\ UNCHANGED storage
  /\ StorageUnchanged

\* onMessage 'getConfig'
GetConfig ==
  /\ response' = [action |-> "getConfig", config |-> getConfig(storage)]
  /\ UNCHANGED storage
  /\ StorageUnchanged

\* onMessage 'clearAllData': storage.local.clear()
ClearAllData ==
  /\ storage' = EmptyStorage
  /\ response' = [action |-> "clearAllData", success |-> TRUE]
  /\ StorageUnchanged

\* checkPopupTrigger up to its cooldown check: why it returns, or "run"
TickOutcome ==
  LET url == tabUrl[browserActive]
      domain == DomainOf(url)
      timeSpent == getTimeSpentToday(Tracker, domain, now)
      faulty == popupCheckInterval = fault.at
      minTime == IF \/ Fails(faulty, fault, "scheduler")
                    \/ getCurrentThresholdMultiplierThrows(schedulerConfig, now)
                   THEN config.minTimeBeforePopup
                   ELSE AdjustedMinTime(config.minTimeBeforePopup,
                                        getCurrentThresholdMultiplier(schedulerConfig, now))
  IN IF Fails(faulty, fault, "storageRead") THEN "rejected"
     ELSE IF ~config.popupEnabled THEN "disabled"
     ELSE IF config.trackingPaused THEN "paused"
     ELSE IF TruthyNum(snoozeUntil) /\ now < snoozeUntil THEN "snoozed"
     ELSE IF /\ ~Fails(faulty, fault, "scheduler")
                /\ ~shouldSuppressPopupsThrows(schedulerConfig, now)
                /\ shouldSuppressPopups(schedulerConfig, now)
       THEN "suppressed"
     ELSE IF Fails(faulty, fault, "siteMatcher") THEN "failed"
     ELSE IF ~isTrackedSite(url) THEN "untracked"
     ELSE IF timeSpent < minTime THEN "minTime"
     ELSE IF InCooldown(config, domain, lastPopupDomain, lastPopupTime, now) THEN "cooldown"
     ELSE "run"

\* The popup check timer fires: checkPopupTrigger reads the configuration, the
\* snooze deadline, the schedule, the active tab, the time spent and the last
\* popup, and stops or goes on to the goal check.  A storage read that
\* rejects before the try block rejects the execution; an exception of the
\* scheduler is caught and the check goes on; an exception of the site
\* matcher is caught at the end of checkPopupTrigger.
TickFire ==
  /\ popupCheckInterval # NoTime
  /\ now >= popupCheckInterval
  /\ popupCheckInterval' = setInterval(popupCheckInterval, TickOutcome = "rejected")
  /\ \E i \in TickIds :
       /\ ticks[i].pc = "idle"
       /\ \A j \in TickIds : j < i => ticks[j].pc # "idle"
       /\ ticks' = [ticks EXCEPT ![i] =
            IF TickOutcome # "run" THEN IdleTick
            ELSE [ IdleTick EXCEPT
                     !.pc = "checkGoalNotifications",
                     !.cfg = config,
                     !.tabId = browserActive,
                     !.domain = DomainOf(tabUrl[browserActive]),
                     !.timeSpent = getTimeSpentToday(Tracker, DomainOf(tabUrl[browserActive]), now),
                     !.lastTime = lastPopupTime,
                     !.lastDomain = lastPopupDomain,
                     !.faulty = (popupCheckInterval = fault.at) ]]
  /\ UNCHANGED <<now, browserVars, trackerVars, configVars, popupVars, goalVars, historyVars, deliveryVars>>

TickUnchanged ==
  UNCHANGED <<now, browserVars, trackerVars, configVars, popupCheckInterval, deleting,
              trueActive, response, channels, fault, resetting, storage, moduleVars>>

\* checkGoalNotifications: getGoals and the loops over the goals and thresholds
TickCheckGoals(i) ==
  /\ ticks[i].pc = "checkGoalNotifications"
  /\ LET r == checkGoalNotifications(userGoals, timeData, now)
     IN ticks' = [ticks EXCEPT ![i] =
          [@ EXCEPT !.pc = "saveGoals", !.goals = r.goals, !.notifications = r.notifications]]
  /\ TickUnchanged
  /\ UNCHANGED <<popupVars, userGoals, popups, notified, delivered>>

\* checkGoalNotifications: saveGoals; then showNotification for each goal
\* notification, the tier and interval checks, and the call of triggerPopup,
\* which sends the showPopup message.  An exception of the goal check is
\* caught: nothing is saved or notified, and the tier checks follow.
TickSaveGoals(i) ==
  /\ ticks[i].pc = "saveGoals"
  /\ userGoals' = IF Fails(ticks[i].faulty, fault, "goalCheck") THEN userGoals ELSE ticks[i].goals
  /\ notified' = IF Fails(ticks[i].faulty, fault, "goalCheck") THEN notified
                 ELSE notified \o ticks[i].notifications
  /\ LET k == ticks[i]
         tier == TierOf(k.cfg, k.timeSpent)
     IN IF tier[1] /\ MayFire(k.domain, k.lastDomain, k.lastTime, tier[2], now)
        THEN /\ popups' = Append(popups, [domain |-> k.domain, time |-> now, interval |-> tier[2]])
             /\ ticks' = [ticks EXCEPT ![i] = [@ EXCEPT !.pc = "triggerPopup"]]
        ELSE /\ popups' = popups
             /\ ticks' = [ticks EXCEPT ![i] = IdleTick]
  /\ TickUnchanged
  /\ UNCHANGED <<popupVars, delivered>>

\* await triggerPopup(...): the overlay, or the fallback notification, is
\* done; an exception of triggerPopup is caught at the end of checkPopupTrigger
TickTriggerPopup(i) ==
  /\ ticks[i].pc = "triggerPopup"
  /\ LET r == triggerPopup(channels)
     IN /\ delivered' = Append(delivered, [domain |-> ticks[i].domain, overlay |-> r.overlay,
                                           notifications |-> r.notifications,
                                           shown |-> r.shown, threw |-> r.threw])
        /\ ticks' = [ticks EXCEPT ![i] =
             IF r.threw THEN IdleTick ELSE [@ EXCEPT !.pc = "setLastPopupTime"]]
  /\ TickUnchanged
  /\ UNCHANGED <<popupVars, userGoals, popups, notified>>

\* await setStorageValue(LAST_POPUP_TIME, Date.now()); a rejected write is
\* caught at the end of checkPopupTrigger
TickSetLastPopupTime(i) ==
  /\ ticks[i].pc = "setLastPopupTime"
  /\ IF Fails(ticks[i].faulty, fault, "storageWrite")
       THEN /\ lastPopupTime' = lastPopupTime
            /\ ticks' = [ticks EXCEPT ![i] = IdleTick]
       ELSE /\ lastPopupTime' = now
            /\ ticks' = [ticks EXCEPT ![i] = [@ EXCEPT !.pc = "setLastPopupDomain"]]
  /\ TickUnchanged
  /\ UNCHANGED <<lastPopupDomain, snoozeUntil, userGoals, popups, notified, delivered>>

\* await setStorageValue(LAST_POPUP_DOMAIN, domain)
TickSetLastPopupDomain(i) ==
  /\ ticks[i].pc = "setLastPopupDomain"
  /\ lastPopupDomain' = ticks[i].domain
  /\ ticks' = [ticks EXCEPT ![i] = IdleTick]
  /\ TickUnchanged
  /\ UNCHANGED <<lastPopupTime, snoozeUntil, userGoals, popups, notified, delivered>>

TickStep(i) ==
  \/ TickCheckGoals(i)
  \/ TickSaveGoals(i)
  \/ TickTriggerPopup(i)
  \/ TickSetLastPopupTime(i)
  \/ TickSetLastPopupDomain(i)

BrowserEvent ==
  \/ \E tabId \in TabIds : TabActivated(tabId)
  \/ \E tabId \in TabIds, url \in Urls : TabUpdated(tabId, url)
  \/ \E tabId \in TabIds : TabRemoved(tabId)
  \/ WindowFocusChanged

-----------------------------------------------------------------------------
(* SpecEvents: the tracker under browser events and its periodic save,     *)
(* from an empty ledger.  The popup checker is left out: it writes none of *)
(* the tracker's state.                                                    *)

InitEvents ==
  /\ InitTracker
  /\ InitPopups
  /\ tabUrl = [t \in TabIds |-> StartUrl]
  /\ timeData = <<>>
  /\ config = DEFAULT_CONFIG
  /\ schedulerConfig = DEFAULT_SCHEDULER_CONFIG
  /\ userGoals = DEFAULT_GOALS
  /\ popupCheckInterval = NoTime

NextEvents == Advance \/ BrowserEvent \/ PeriodicSave

SpecEvents == InitEvents /\ [][NextEvents]_vars

-----------------------------------------------------------------------------
(* Spec: the service worker with its popup checker, under tab switches and *)
(* focus changes, with a ledger left by an earlier run of the day and two  *)
(* goals.                                                                  *)

InitLedger ==
  getTodayKey(BootTime) :> [d \in TrackedDomains |-> 15 * 60 * 1000]

InitGoals ==
  [ goals |-> << Goal("g1", "daily_limit", 30, NULL, <<50, 100>>),
                 Goal("g2", "site_limit", 16, "b.com", <<100>>) >>,
    history |-> <<>> ]

InitStorage ==
  /\ InitTracker
  /\ InitPopups
  /\ tabUrl = [t \in TabIds |-> IF t = 1 THEN [www |-> TRUE, host |-> "a.com"]
                                 ELSE [www |-> FALSE, host |-> "b.com"]]
  /\ timeData = InitLedger
  /\ config = DEFAULT_CONFIG
  /\ userGoals = InitGoals
  /\ popupCheckInterval = BootTime + TICK_INTERVAL

Init ==
  /\ InitStorage
  /\ schedulerConfig = DEFAULT_SCHEDULER_CONFIG

NextTicks ==
  \/ AdvanceUncounted
  \/ \E tabId \in TabIds : TabActivated(tabId)
  \/ WindowFocusChanged
  \/ PeriodicSave
  \/ TickFire
  \/ \E i \in TickIds : TickStep(i)

Next == NextTicks

Spec == Init /\ [][Next]_vars

-----------------------------------------------------------------------------
(* SpecGoals: Spec with the deleteGoal message                             *)

NextGoals ==
  \/ NextTicks
  \/ DeleteGoalRead("g2")
  \/ DeleteGoalSave

SpecGoals == Init /\ [][NextGoals]_vars

-----------------------------------------------------------------------------
(* SpecPause: Spec with the pauseTracking and resumeTracking messages, and *)
(* with or without a custom rule that blocks tracking.                     *)

\* A custom rule that blocks tracking from 12:00 to 12:03 on every day
BlockRule ==
  Schedule("block", Time("1", "2", "0", "0"), Time("1", "2", "0", "3"),
           AllDays, "block_tracking", One)

SchedulerConfigs ==
  { DEFAULT_SCHEDULER_CONFIG,
    [DEFAULT_SCHEDULER_CONFIG EXCEPT !.schedules = <<BlockRule>>] }

InitPause ==
  /\ InitStorage
  /\ schedulerConfig \in SchedulerConfigs

NextPause ==
  \/ NextTicks
  \/ PauseTracking
  \/ ResumeTracking

SpecPause == InitPause /\ [][NextPause]_vars

-----------------------------------------------------------------------------
(* SpecProgress: the getGoalProgress message over ledgers and goals of     *)
(* every type, with targets below, at and above the time in the ledger.    *)

LedgerMinutes == {0, 15, 30, 45}

Ledgers ==
  {<<>>} \cup
  { getTodayKey(BootTime) :> [d \in TrackedDomains |-> IF d = "a.com" THEN a ELSE b] :
      a \in {x * MS_PER_MINUTE : x \in LedgerMinutes},
      b \in {x * MS_PER_MINUTE : x \in LedgerMinutes} }

GoalTargets == {30, 40}

ProgressGoals ==
  { Goal("g", type, target, domain, <<50, 100, 120>>) :
      type \in {"daily_limit", "site_limit", "weekly_limit"},
      target \in GoalTargets,
      domain \in {NULL} \cup TrackedDomains }

InitProgress ==
  /\ InitTracker
  /\ InitPopups
  /\ tabUrl = [t \in TabIds |-> StartUrl]
  /\ timeData \in Ledgers
  /\ config = DEFAULT_CONFIG
  /\ schedulerConfig = DEFAULT_SCHEDULER_CONFIG
  /\ \E g \in ProgressGoals : userGoals = [goals |-> <<g>>, history |-> <<>>]
  /\ popupCheckInterval = NoTime

NextProgress == GetGoalProgress

SpecProgress == InitProgress /\ [][NextProgress]_vars

-----------------------------------------------------------------------------
(* SpecScheduler: the getSchedulerStatus message at times of day around    *)
(* the window boundaries, on a Sunday, a Monday and a Saturday, over       *)
(* scheduler configurations with and without quiet hours, work hours,      *)
(* weekend mode and custom rules.                                          *)

\* Custom rules: an overnight suppress rule, two adjust_threshold rules and a
\* block_tracking rule
NightRule ==
  Schedule("night", Time("2", "3", "0", "0"), Time("0", "1", "0", "0"),
           {1, 6}, "disable_popups", One)
LunchRule ==
  Schedule("lunch", Time("1", "2", "0", "0"), Time("1", "3", "0", "0"),
           AllDays, "adjust_threshold", [n |-> 2, d |-> 1])
StrictRule ==
  Schedule("strict", Time("0", "9", "0", "0"), Time("1", "2", "3", "0"),
           {1, 2, 3, 4, 5}, "adjust_threshold", Half)
NoonBlockRule ==
  Schedule("noonblock", Time("1", "2", "0", "0"), Time("1", "3", "0", "0"),
           AllDays, "block_tracking", [n |-> 3, d |-> 1])

RuleLists ==
  { <<>>,
    <<NightRule>>,
    <<LunchRule, StrictRule>>,
    <<LunchRule, NoonBlockRule, NightRule>>,
    <<[LunchRule EXCEPT !.enabled = FALSE], StrictRule>> }

StatusConfigs ==
  { [ enabled |-> e, schedules |-> r,
      quickSettings |-> [DEFAULT_QUICK_SETTINGS EXCEPT
                           !.quietHoursEnabled = q, !.workHoursEnabled = w, !.weekendMode = k] ] :
      e \in BOOLEAN, q \in BOOLEAN, w \in BOOLEAN, k \in BOOLEAN, r \in RuleLists }

\* Minutes of the day at which the status is asked
StatusMinutes ==
  { 30, 3 * 60, 7 * 60 + 59, 8 * 60, 9 * 60, 12 * 60, 12 * 60 + 29, 12 * 60 + 30, 13 * 60,
    16 * 60 + 59, 17 * 60, 22 * 60, 23 * 60 + 30 }

StatusDays == {0, 1, 6}

StatusTimes == { d * MS_PER_DAY + m * MS_PER_MINUTE : d \in StatusDays, m \in StatusMinutes }

InitScheduler ==
  /\ now \in StatusTimes
  /\ browserActive = 1
  /\ windowFocused = FALSE
  /\ activeTab = <<>>
  /\ startTime = NoTime
  /\ currentDomain = NULL
  /\ trackingInterval = NoTime
  /\ trueActive = 0
  /\ InitPopups
  /\ tabUrl = [t \in TabIds |-> StartUrl]
  /\ timeData = <<>>
  /\ config = DEFAULT_CONFIG
  /\ schedulerConfig \in StatusConfigs
  /\ userGoals = DEFAULT_GOALS
  /\ popupCheckInterval = NoTime

NextScheduler == GetSchedulerStatus

SpecScheduler == InitScheduler /\ [][NextScheduler]_vars

-----------------------------------------------------------------------------
(* SpecSuppress: Spec under scheduler configurations whose quiet hours or  *)
(* disable_popups rule begin or end while the popup checker runs.          *)

\* A custom rule that suppresses popups from 12:01 to 12:03
NoonSuppressRule(days) ==
  Schedule("nosuppress", Time("1", "2", "0", "1"), Time("1", "2", "0", "3"),
           days, "disable_popups", One)

\* Quiet hours from 12:00 to 12:01
NoonQuietHours ==
  [DEFAULT_QUICK_SETTINGS EXCEPT
     !.quietHoursEnabled = TRUE,
     !.quietHoursStart = Time("1", "2", "0", "0"),
     !.quietHoursEnd = Time("1", "2", "0", "1")]

SuppressConfigs ==
  { [DEFAULT_SCHEDULER_CONFIG EXCEPT !.quickSettings = NoonQuietHours],
    [DEFAULT_SCHEDULER_CONFIG EXCEPT !.quickSettings = NoonQuietHours, !.enabled = FALSE],
    [DEFAULT_SCHEDULER_CONFIG EXCEPT !.schedules = <<NoonSuppressRule(AllDays)>>],
    [DEFAULT_SCHEDULER_CONFIG EXCEPT !.schedules = <<NoonSuppressRule({2, 3})>>] }

InitSuppress ==
  /\ InitStorage
  /\ schedulerConfig \in SuppressConfigs

NextSuppress == NextTicks

SpecSuppress == InitSuppress /\ [][NextSuppress]_vars

-----------------------------------------------------------------------------
(* SpecTiers: the popup checker alone (the window is never focused, so the *)
(* tracker is idle and the time spent is the ledger's), over ledgers below,*)
(* at and above each threshold, with the default tier table and with one   *)
(* whose veryHigh threshold is finite.                                     *)

\* Minutes in the ledger for a.com
TierMinutes == {3, 6, 14, 15, 16, 29, 30, 44, 45, 60}

TierLedgers ==
  { getTodayKey(BootTime) :> [d \in TrackedDomains |-> IF d = "a.com" THEN m * MS_PER_MINUTE ELSE 0] :
      m \in TierMinutes }

TierConfigs ==
  { DEFAULT_CONFIG,
    [DEFAULT_CONFIG EXCEPT !.thresholds.veryHigh = 45 * MS_PER_MINUTE] }

InitTiers ==
  /\ InitTracker
  /\ InitPopups
  /\ tabUrl = [t \in TabIds |-> IF t = 1 THEN [www |-> TRUE, host |-> "a.com"]
                                 ELSE [www |-> FALSE, host |-> "b.com"]]
  /\ timeData \in TierLedgers
  /\ config \in TierConfigs
  /\ schedulerConfig = DEFAULT_SCHEDULER_CONFIG
  /\ userGoals = DEFAULT_GOALS
  /\ popupCheckInterval = BootTime + TICK_INTERVAL

NextTiers ==
  \/ AdvanceUncounted
  \/ TickFire
  \/ \E i \in TickIds : TickStep(i)

SpecTiers == InitTiers /\ [][NextTiers]_vars

-----------------------------------------------------------------------------
(* SpecSnooze: the popup checker and the snoozePopups message, with the    *)
(* window never focused.                                                   *)

NextSnooze ==
  \/ AdvanceUncounted
  \/ SnoozePopups
  \/ TickFire
  \/ \E i \in TickIds : TickStep(i)

SpecSnooze == Init /\ [][NextSnooze]_vars

-----------------------------------------------------------------------------
(* SpecMinTime: the popup checker alone, over ledgers around the minimum   *)
(* time and scheduler rules that multiply it by 1/2, 2 and 4.              *)

RelaxRule ==
  Schedule("relax", Time("1", "2", "0", "0"), Time("1", "3", "0", "0"),
           AllDays, "adjust_threshold", [n |-> 4, d |-> 1])

MultiplierConfigs ==
  { DEFAULT_SCHEDULER_CONFIG,
    [DEFAULT_SCHEDULER_CONFIG EXCEPT !.schedules = <<LunchRule>>],
    [DEFAULT_SCHEDULER_CONFIG EXCEPT !.schedules = <<RelaxRule>>],
    [DEFAULT_SCHEDULER_CONFIG EXCEPT !.schedules = <<StrictRule>>] }

\* Minutes in the ledger for a.com
MinTimeMinutes == {2, 3, 6, 14, 16, 19, 20, 31}

MinTimeLedgers ==
  { getTodayKey(BootTime) :> [d \in TrackedDomains |-> IF d = "a.com" THEN m * MS_PER_MINUTE ELSE 0] :
      m \in MinTimeMinutes }

InitMinTime ==
  /\ InitTracker
  /\ InitPopups
  /\ tabUrl = [t \in TabIds |-> IF t = 1 THEN [www |-> TRUE, host |-> "a.com"]
                                 ELSE [www |-> FALSE, host |-> "b.com"]]
  /\ timeData \in MinTimeLedgers
  /\ config = DEFAULT_CONFIG
  /\ schedulerConfig \in MultiplierConfigs
  /\ userGoals = DEFAULT_GOALS
  /\ popupCheckInterval = BootTime + TICK_INTERVAL

NextMinTime == NextTiers

SpecMinTime == InitMinTime /\ [][NextMinTime]_vars

-----------------------------------------------------------------------------
(* SpecDelivery: the popup checker alone, with a content script that       *)
(* answers or not and a notification that is created or not.               *)

Channels == [overlay : BOOLEAN, notification : BOOLEAN]

\* Minutes in the ledger for a.com
DeliveryMinutes == {3, 16, 31}

DeliveryLedgers ==
  { getTodayKey(BootTime) :> [d \in TrackedDomains |-> IF d = "a.com" THEN m * MS_PER_MINUTE ELSE 0] :
      m \in DeliveryMinutes }

InitDelivery ==
  /\ InitTracker
  /\ lastPopupTime = 0
  /\ lastPopupDomain = NULL
  /\ snoozeUntil = 0
  /\ ticks = [i \in TickIds |-> IdleTick]
  /\ deleting = IdleDelete
  /\ popups = <<>>
  /\ notified = <<>>
  /\ response = NoResponse
  /\ channels \in Channels
  /\ fault = NoFault
  /\ delivered = <<>>
  /\ resetting = IdleReset(NoTime)
  /\ storage = EmptyStorage
  /\ InitModules
  /\ tabUrl = [t \in TabIds |-> IF t = 1 THEN [www |-> TRUE, host |-> "a.com"]
                                 ELSE [www |-> FALSE, host |-> "b.com"]]
  /\ timeData \in DeliveryLedgers
  /\ config = DEFAULT_CONFIG
  /\ schedulerConfig = DEFAULT_SCHEDULER_CONFIG
  /\ userGoals = DEFAULT_GOALS
  /\ popupCheckInterval = BootTime + TICK_INTERVAL

NextDelivery == NextTiers

SpecDelivery == InitDelivery /\ [][NextDelivery]_vars

-----------------------------------------------------------------------------
(* SpecFaults: the popup checker alone, with one step that fails in the    *)
(* first execution of checkPopupTrigger.  LiveFaults adds the scheduling:  *)
(* a due timer fires, an await ends, time passes.                          *)

FaultSteps == {"storageRead", "scheduler", "siteMatcher", "goalCheck", "storageWrite"}

FaultPlans ==
  {NoFault} \cup { [step |-> st, at |-> BootTime + TICK_INTERVAL] : st \in FaultSteps }

InitFaults ==
  /\ InitTracker
  /\ lastPopupTime = 0
  /\ lastPopupDomain = NULL
  /\ snoozeUntil = 0
  /\ ticks = [i \in TickIds |-> IdleTick]
  /\ deleting = IdleDelete
  /\ popups = <<>>
  /\ notified = <<>>
  /\ response = NoResponse
  /\ channels \in Channels
  /\ fault \in FaultPlans
  /\ delivered = <<>>
  /\ resetting = IdleReset(NoTime)
  /\ storage = EmptyStorage
  /\ InitModules
  /\ tabUrl = [t \in TabIds |-> IF t = 1 THEN [www |-> TRUE, host |-> "a.com"]
                                 ELSE [www |-> FALSE, host |-> "b.com"]]
  /\ timeData = getTodayKey(BootTime) :> [d \in TrackedDomains |-> 16 * MS_PER_MINUTE]
  /\ config = DEFAULT_CONFIG
  /\ schedulerConfig = DEFAULT_SCHEDULER_CONFIG
  /\ userGoals = InitGoals
  /\ popupCheckInterval = BootTime + TICK_INTERVAL

NextFaults == NextTiers

SpecFaults == InitFaults /\ [][NextFaults]_vars

LiveFaults ==
  /\ SpecFaults
  /\ WF_vars(AdvanceUncounted)
  /\ WF_vars(TickFire)
  /\ \A i \in TickIds : WF_vars(TickStep(i))

-----------------------------------------------------------------------------
(* SpecMalformed: the getSchedulerStatus message over rule lists that hold *)
(* a rule with a malformed or missing field next to valid rules.           *)

NoStartRule ==
  Schedule("nostart", Undefined, Time("1", "3", "0", "0"), AllDays, "disable_popups", One)
NoEndRule ==
  Schedule("noend", Time("1", "2", "0", "0"), Undefined, AllDays, "adjust_threshold",
           [n |-> 2, d |-> 1])
NoDaysRule ==
  Schedule("nodays", Time("1", "2", "0", "0"), Time("1", "3", "0", "0"), NoDays,
           "block_tracking", One)
\* startTime is "ab:0", endTime is "1300"
GarbledRule ==
  Schedule("garbled", <<"a", "b", ":", "0">>, <<"1", "3", "0", "0">>, AllDays,
           "disable_popups", One)

MalformedRuleLists ==
  { <<NoStartRule, NightRule>>,
    <<NightRule, NoStartRule>>,
    <<LunchRule, NoEndRule>>,
    <<NoDaysRule, NoonBlockRule>>,
    <<GarbledRule, NightRule, LunchRule>>,
    <<GarbledRule>> }

MalformedConfigs ==
  { [DEFAULT_SCHEDULER_CONFIG EXCEPT !.schedules = r] : r \in MalformedRuleLists }

InitMalformed ==
  /\ now \in StatusTimes
  /\ browserActive = 1
  /\ windowFocused = FALSE
  /\ activeTab = <<>>
  /\ startTime = NoTime
  /\ currentDomain = NULL
  /\ trackingInterval = NoTime
  /\ trueActive = 0
  /\ InitPopups
  /\ tabUrl = [t \in TabIds |-> StartUrl]
  /\ timeData = <<>>
  /\ config = DEFAULT_CONFIG
  /\ schedulerConfig \in MalformedConfigs
  /\ userGoals = DEFAULT_GOALS
  /\ popupCheckInterval = NoTime

NextMalformed == GetSchedulerStatus

SpecMalformed == InitMalformed /\ [][NextMalformed]_vars

-----------------------------------------------------------------------------
(* SpecMessages: single messages to the background listener, over valid    *)
(* and malformed rule lists, with storage working or rejecting.            *)

MessageFaults(t) == { NoFault, [step |-> "message", at |-> t] }

Messages == [action : MessageActions, domain : {"a.com"}]

InitMessages ==
  /\ now \in StatusTimes
  /\ browserActive = 1
  /\ windowFocused = FALSE
  /\ activeTab = <<>>
  /\ startTime = NoTime
  /\ currentDomain = NULL
  /\ trackingInterval = NoTime
  /\ trueActive = 0
  /\ lastPopupTime = 0
  /\ lastPopupDomain = NULL
  /\ snoozeUntil = 0
  /\ ticks = [i \in TickIds |-> IdleTick]
  /\ deleting = IdleDelete
  /\ popups = <<>>
  /\ notified = <<>>
  /\ response = NoResponse
  /\ channels = [overlay |-> TRUE, notification |-> TRUE]
  /\ fault \in MessageFaults(now)
  /\ delivered = <<>>
  /\ resetting = IdleReset(NoTime)
  /\ storage = EmptyStorage
  /\ InitModules
  /\ tabUrl = [t \in TabIds |-> StartUrl]
  /\ timeData = InitLedger
  /\ config = DEFAULT_CONFIG
  /\ schedulerConfig \in MalformedConfigs \cup {DEFAULT_SCHEDULER_CONFIG}
  /\ userGoals = InitGoals
  /\ popupCheckInterval = NoTime

NextMessages == \E message \in Messages : OnMessage(message)

SpecMessages == InitMessages /\ [][NextMessages]_vars

-----------------------------------------------------------------------------
(* SpecStorage: writes and reads of storage keys from a fresh profile.     *)

StorableValues ==
  { JsNumber(0), JsNumber(123), JsBoolean(FALSE), JsBoolean(TRUE), JsString(""),
    JsString("data"), JsNull, JsObject([test |-> "data"]), JsObject(DEFAULT_CONFIG) }

InitFresh ==
  /\ InitTracker
  /\ InitPopups
  /\ tabUrl = [t \in TabIds |-> StartUrl]
  /\ timeData = <<>>
  /\ config = DEFAULT_CONFIG
  /\ schedulerConfig = DEFAULT_SCHEDULER_CONFIG
  /\ userGoals = DEFAULT_GOALS
  /\ popupCheckInterval = NoTime

NextStorage ==
  \/ \E key \in StorageKeys, value \in StorableValues : SetStorageValue(key, value)
  \/ \E key \in StorageKeys : GetStorageValue(key)
  \/ GetConfig
  \/ ClearAllData

SpecStorage == InitFresh /\ [][NextStorage]_vars

-----------------------------------------------------------------------------
(* SpecStops: a.com in the active tab, the window gaining and losing focus *)
(* and the background tab closing, the executions of handleTabInactive     *)
(* interleaving at the awaits of stopTracking.                             *)

StopCauses == {"blur", "removed"}

InitStops ==
  /\ InitTracker
  /\ InitPopups
  /\ tabUrl = [t \in TabIds |-> IF t = 1 THEN [www |-> TRUE, host |-> "a.com"] ELSE StartUrl]
  /\ timeData = InitLedger
  /\ config = DEFAULT_CONFIG
  /\ schedulerConfig = DEFAULT_SCHEDULER_CONFIG
  /\ userGoals = DEFAULT_GOALS
  /\ popupCheckInterval = NoTime

NextStops ==
  \/ AdvanceCounted
  \/ FocusGained
  \/ PeriodicSave
  \/ \E h \in HandlerIds, cause \in StopCauses : InactiveStart(h, cause)
  \/ \E h \in HandlerIds : InactiveRead(h)
  \/ \E h \in HandlerIds : InactiveSaved(h)

SpecStops == InitStops /\ [][NextStops]_vars

-----------------------------------------------------------------------------
(* SpecFocus: the focus session operations over a clock, from histories    *)
(* that are at the cap or just below.                                      *)

\* One-minute sessions completed the day before BootTime, the most recent first
OldSessions(n) ==
  [ k \in 1..n |->
      LET start == BootTime - MS_PER_DAY - k * MS_PER_MINUTE
      IN [ id |-> start, type |-> "focus", duration |-> MS_PER_MINUTE,
           startTime |-> start, endTime |-> start + MS_PER_MINUTE,
           pausedTime |-> 0, pauseStart |-> NoTime, status |-> "completed",
           interruptions |-> 0, actualDuration |-> MS_PER_MINUTE ] ]

FocusHistoryLengths == {99, 100}

SessionTypes == {"focus", "short_break"}

InitFocus ==
  /\ InitTracker
  /\ lastPopupTime = 0
  /\ lastPopupDomain = NULL
  /\ snoozeUntil = 0
  /\ ticks = [i \in TickIds |-> IdleTick]
  /\ deleting = IdleDelete
  /\ popups = <<>>
  /\ notified = <<>>
  /\ response = NoResponse
  /\ channels = [overlay |-> TRUE, notification |-> TRUE]
  /\ fault = NoFault
  /\ delivered = <<>>
  /\ resetting = IdleReset(NoTime)
  /\ storage = EmptyStorage
  /\ stopping = [h \in HandlerIds |-> IdleStop]
  /\ \E n \in FocusHistoryLengths :
       focus = [DEFAULT_FOCUS_STATE EXCEPT !.sessionHistory = OldSessions(n)]
  /\ writer = IdleWriter
  /\ retrying = IdleRetry
  /\ tabUrl = [t \in TabIds |-> StartUrl]
  /\ timeData = <<>>
  /\ config = DEFAULT_CONFIG
  /\ schedulerConfig = DEFAULT_SCHEDULER_CONFIG
  /\ userGoals = DEFAULT_GOALS
  /\ popupCheckInterval = NoTime

NextFocus ==
  \/ AdvanceUncounted
  \/ \E type \in SessionTypes : StartFocusSession(type)
  \/ PauseSession
  \/ ResumeSession
  \/ CompleteSession
  \/ CancelSession

SpecFocus == InitFocus /\ [][NextFocus]_vars

-----------------------------------------------------------------------------
(* SpecWriter: the batched writer under write and forceFlush calls, its    *)
(* timer and its flushes settling in any order.  LiveWriter: the timer     *)
(* fires and every flush settles; no call is ever owed.                    *)

FlightIds == 1..MaxWrites

NextWriter ==
  \/ \E key \in WriterKeys : WriterWrite(key)
  \/ WriterTimer
  \/ WriterForceFlush
  \/ \E i \in FlightIds : WriterSettle(i)

SpecWriter == InitFresh /\ [][NextWriter]_vars

LiveWriter ==
  /\ SpecWriter
  /\ WF_vars(WriterTimer)
  /\ \A i \in FlightIds : WF_vars(WriterSettle(i))

-----------------------------------------------------------------------------
(* SpecRetry: executions of withRetry, one after the other, over the       *)
(* options below and every sequence of outcomes of the operation.          *)

MaxRetryLimit == 3
RetryLimits == 0..MaxRetryLimit
RetryDelays == {250, 1000}
RetryBackoffs == {1, 2, 3}

NextRetry ==
  \/ \E maxRetries \in RetryLimits : \E delay \in RetryDelays : \E backoff \in RetryBackoffs :
       WithRetry(maxRetries, delay, backoff)
  \/ \E ok \in BOOLEAN : RetryAttempt(ok)
  \/ RetryWake
  \/ RetryExhausted

SpecRetry == InitFresh /\ [][NextRetry]_vars

-----------------------------------------------------------------------------
(* SpecFlush: the tracker under tab switches, focus changes and its        *)
(* periodic save, the ledger's storage rejecting at one time of the run.   *)

FlushFaults == { [step |-> "flush", at |-> BootTime + k * Step] : k \in 1..3 }

FlushLedgers == { <<>>, InitLedger }

InitFlush ==
  /\ InitTracker
  /\ lastPopupTime = 0
  /\ lastPopupDomain = NULL
  /\ snoozeUntil = 0
  /\ ticks = [i \in TickIds |-> IdleTick]
  /\ deleting = IdleDelete
  /\ popups = <<>>
  /\ notified = <<>>
  /\ response = NoResponse
  /\ channels = [overlay |-> TRUE, notification |-> TRUE]
  /\ fault \in FlushFaults
  /\ delivered = <<>>
  /\ resetting = IdleReset(NoTime)
  /\ storage = EmptyStorage
  /\ InitModules
  /\ tabUrl = [t \in TabIds |-> IF t = 1 THEN [www |-> TRUE, host |-> "a.com"]
                                 ELSE [www |-> FALSE, host |-> "news.org"]]
  /\ timeData \in FlushLedgers
  /\ config = DEFAULT_CONFIG
  /\ schedulerConfig = DEFAULT_SCHEDULER_CONFIG
  /\ userGoals = DEFAULT_GOALS
  /\ popupCheckInterval = NoTime

NextFlush ==
  \/ Advance
  \/ \E tabId \in TabIds : TabActivated(tabId)
  \/ WindowFocusChanged
  \/ PeriodicSave

SpecFlush == InitFlush /\ [][NextFlush]_vars

-----------------------------------------------------------------------------
(* SpecReset: the tracker under focus changes and its periodic save, with  *)
(* the daily maintenance, over a ledger that holds old days.               *)

\* Ages, in days, of the entries of the ledger
LedgerAges == {0, 1, 29, 30, 31, 45}

OldLedger(ages) ==
  [day \in {getTodayKey(BootTime) - a : a \in ages} |->
     [d \in TrackedDomains |-> (1 + getTodayKey(BootTime) - day) * MS_PER_MINUTE]]

ResetLedgers == { OldLedger(LedgerAges), OldLedger({1, 30, 31}), OldLedger({31, 45}) }

InitReset ==
  /\ InitTracker
  /\ InitPopups
  /\ tabUrl = [t \in TabIds |-> IF t = 1 THEN [www |-> TRUE, host |-> "a.com"]
                                 ELSE [www |-> FALSE, host |-> "news.org"]]
  /\ timeData \in ResetLedgers
  /\ config = DEFAULT_CONFIG
  /\ schedulerConfig = DEFAULT_SCHEDULER_CONFIG
  /\ userGoals = DEFAULT_GOALS
  /\ popupCheckInterval = NoTime

NextReset ==
  \/ Advance
  \/ \E tabId \in TabIds : TabActivated(tabId)
  \/ WindowFocusChanged
  \/ PeriodicSave
  \/ ResetRead
  \/ ResetSave

SpecReset == InitReset /\ [][NextReset]_vars

-----------------------------------------------------------------------------
(* SpecReads: the tracker under tab switches, focus changes and its        *)
(* periodic save, with the getTimeSpent and getTodayStats messages.        *)

InitReads ==
  /\ InitTracker
  /\ InitPopups
  /\ tabUrl = [t \in TabIds |-> IF t = 1 THEN [www |-> TRUE, host |-> "a.com"]
                                 ELSE [www |-> FALSE, host |-> "b.com"]]
  /\ timeData \in FlushLedgers
  /\ config = DEFAULT_CONFIG
  /\ schedulerConfig = DEFAULT_SCHEDULER_CONFIG
  /\ userGoals = DEFAULT_GOALS
  /\ popupCheckInterval = NoTime

NextReads ==
  \/ AdvanceUncounted
  \/ \E tabId \in TabIds : TabActivated(tabId)
  \/ WindowFocusChanged
  \/ PeriodicSave
  \/ \E domain \in TrackedDomains : GetTimeSpent(domain)
  \/ GetTodayStats

SpecReads == InitReads /\ [][NextReads]_vars

-----------------------------------------------------------------------------
(* SpecHistory: the popup checker alone, the stored notification history   *)
(* holding 97 to 100 keys of the day before.                               *)

OldHistory(n) == [k \in 1..n |-> <<"g0", k, getTodayKey(BootTime) - 1>>]

HistoryLengths == (HISTORY_CAP - 3)..HISTORY_CAP

InitHistory ==
  /\ InitTracker
  /\ InitPopups
  /\ tabUrl = [t \in TabIds |-> IF t = 1 THEN [www |-> TRUE, host |-> "a.com"]
                                 ELSE [www |-> FALSE, host |-> "b.com"]]
  /\ timeData = InitLedger
  /\ config = DEFAULT_CONFIG
  /\ schedulerConfig = DEFAULT_SCHEDULER_CONFIG
  /\ \E n \in HistoryLengths : userGoals = [InitGoals EXCEPT !.history = OldHistory(n)]
  /\ popupCheckInterval = BootTime + TICK_INTERVAL

NextHistory ==
  \/ AdvanceUncounted
  \/ WindowFocusChanged
  \/ TickFire
  \/ \E i \in TickIds : TickStep(i)

SpecHistory == InitHistory /\ [][NextHistory]_vars

-----------------------------------------------------------------------------
(* Claims about the session tracker *)

ActiveSession == Truthy(currentDomain) /\ TruthyNum(startTime)

\* The sum of today's ledger entries
LedgerToday ==
  IF getTodayKey(now) \in DOMAIN timeData
  THEN SumOver(timeData[getTodayKey(now)], TrackedDomains)
  ELSE 0

\* Today's ledger plus the in-memory span of the active session
RecordedToday == LedgerToday + (IF ActiveSession THEN now - startTime ELSE 0)

\* C1: when the periodic flush fires while a session for domain D is active and
\* has run for at least 60 s, a session for the same domain D is active after
\* it, started at the time of the flush.
C1_PeriodicFlushRestartsSameDomain ==
  [][ (PeriodicSave /\ ActiveSession /\ now - startTime >= FLUSH_INTERVAL)
        => (currentDomain' = currentDomain /\ startTime' = now) ]_vars

\* C2: the time recorded for the day (ledger plus running session) equals the
\* time a tracked domain truly was the focused active tab, to within one flush
\* interval, over every sequence of browser events and periodic flushes.
C2_TimeConservation ==
  /\ RecordedToday - trueActive <= FLUSH_INTERVAL
  /\ trueActive - RecordedToday <= FLUSH_INTERVAL

\* C3: getTimeSpentToday(domain) is the ledger entry of today (0 when absent)
\* plus the running span when domain is the active session, so a first session
\* that has not been flushed yet reads as its running span.
C3_TimeSpentIsLedgerPlusSession ==
  \A d \in TrackedDomains :
    getTimeSpentToday(Tracker, d, now) =
      LedgerAt(timeData, getTodayKey(now), d)
        + (IF currentDomain = d /\ TruthyNum(startTime) THEN now - startTime ELSE 0)

-----------------------------------------------------------------------------
(* Claims about the dispatcher, the cooldown guard and the goal monitor *)

TicksInProgress == {i \in TickIds : ticks[i].pc # "idle"}

\* C4: when an intervention fired for domain D at t0 and I is the repeat
\* interval of D's tier at the next fire, no second intervention for D fires
\* before t0 + I, whatever fired for other domains in between.
C4_CooldownEnforced ==
  \A i \in 1..Len(popups) : \A j \in 1..Len(popups) :
    (i < j /\ popups[i].domain = popups[j].domain)
      => popups[j].time >= popups[i].time + popups[j].interval

\* C5: while the delivery of an intervention is outstanding, lastPopupTime and
\* lastPopupDomain already hold the time and the domain of the latest fire.
C5_RecordedBeforeDelivery ==
  (\E i \in TickIds : ticks[i].pc = "triggerPopup")
    => /\ lastPopupTime = popups[Len(popups)].time
       /\ lastPopupDomain = popups[Len(popups)].domain

\* C6: at most one execution of checkPopupTrigger is in progress at any time.
C6_TicksSerialized == Cardinality(TicksInProgress) <= 1

\* C7: a notification for one (goalId, threshold, day) is emitted at most once.
C7_GoalAtMostOnce ==
  \A i \in 1..Len(notified) : \A j \in 1..Len(notified) :
    i < j => notified[i] # notified[j]

\* Every threshold that an enabled goal has reached is in the saved history
AllReachedNotified ==
  \A k \in 1..Len(userGoals.goals) :
    LET goal == userGoals.goals[k]
        progress == getGoalProgress(goal, timeData, now)
    IN goal.enabled =>
         \A n \in 1..Len(goal.notifyAt) :
           progress.percentage10 >= 10 * goal.notifyAt[n]
             => InSeq(<<goal.id, goal.notifyAt[n], getTodayKey(now)>>, userGoals.history)

\* C8: a tick that stops its popup path at the snooze, the suppression, the
\* minimum time or the cooldown, while tracking is neither paused nor blocked,
\* has still notified every goal threshold reached.
C8_GoalCheckEveryTick ==
  [][ ( /\ TickFire
        /\ TickOutcome \in {"snoozed", "suppressed", "minTime", "cooldown"}
        /\ ~shouldBlockTracking(schedulerConfig, now) )
        => AllReachedNotified' ]_vars

-----------------------------------------------------------------------------
(* Claims about blocked and paused tracking *)

\* C9: while a block_tracking rule is active the ledger does not grow, no
\* session is active and no intervention fires.
C9_BlockedTrackingIsInert ==
  [][ ( /\ shouldBlockTracking(schedulerConfig, now)
        /\ shouldBlockTracking(schedulerConfig, now') )
        => /\ ~ActiveSession'
           /\ timeData' = timeData
           /\ popups' = popups ]_vars

\* The ledger once the active session, if any, is flushed
FlushedLedger ==
  IF ActiveSession
  THEN LET today == getTodayKey(now)
           day == IF today \in DOMAIN timeData THEN timeData[today] ELSE EmptyDay
       IN [d \in (DOMAIN timeData) \cup {today} |->
             IF d = today
             THEN [day EXCEPT ![currentDomain] = @ + (now - startTime)]
             ELSE timeData[d]]
  ELSE timeData

\* C10: pauseTracking flushes the active session into the ledger and clears
\* it; from then until resumeTracking no session is created, the ledger does
\* not grow and no intervention fires.
C10_PausedTrackingIsInert ==
  [][ /\ PauseTracking => (~ActiveSession' /\ timeData' = FlushedLedger)
      /\ (config.trackingPaused /\ config'.trackingPaused)
           => (~ActiveSession' /\ timeData' = timeData /\ popups' = popups) ]_vars

-----------------------------------------------------------------------------
(* Claims about getGoalProgress *)

EnabledGoals == SelectSeq(userGoals.goals, LAMBDA g : g.enabled)

\* round(1000 * currentTime / targetMs) for whole minutes: the ratio in tenths
\* of a percent, not clamped
UnclampedPercentage10(currentTime, targetMs) ==
  LET c == currentTime \div MS_PER_MINUTE
      g == targetMs \div MS_PER_MINUTE
  IN (2000 * c + g) \div (2 * g)

\* C11: the percentage that getGoalProgress reports is the ratio 100 *
\* currentTime / targetMs, not clamped: above 100 whenever currentTime is above
\* the target, with exceeded true.
C11_PercentageUnclamped ==
  response.action = "getGoalProgress" =>
    \A k \in 1..Len(response.progress) :
      LET p == response.progress[k]
      IN /\ p.percentage10 = UnclampedPercentage10(p.currentTime, p.targetTime)
         /\ p.currentTime > p.targetTime => (p.percentage10 > 1000 /\ p.exceeded)

\* Today's ledger value of one domain, 0 when the day or the domain is absent
TodayOf(domain) ==
  IF getTodayKey(now) \in DOMAIN timeData /\ domain \in DOMAIN timeData[getTodayKey(now)]
  THEN timeData[getTodayKey(now)][domain]
  ELSE 0

\* C12: currentTime is the sum of today's ledger over all domains for a
\* daily_limit goal without domain, today's ledger value of goal.domain for a
\* site_limit goal and for a daily_limit goal with a domain; exceeded is true
\* exactly when currentTime is above the target.
C12_CurrentTimeByGoalType ==
  response.action = "getGoalProgress" =>
    /\ Len(response.progress) = Len(EnabledGoals)
    /\ \A k \in 1..Len(response.progress) :
         LET p == response.progress[k]
             goal == EnabledGoals[k]
         IN /\ (goal.type = "daily_limit" /\ goal.domain = NULL)
                 => p.currentTime = TodayOf("a.com") + TodayOf("b.com")
            /\ (goal.type = "site_limit" \/ (goal.type = "daily_limit" /\ goal.domain # NULL))
                 => p.currentTime = TodayOf(goal.domain)
            /\ goal.type \in {"daily_limit", "site_limit"}
                 => (p.exceeded <=> p.currentTime > goal.target * MS_PER_MINUTE)

\* A site_limit goal on b.com is reported as exceeded while a.com holds a
\* different amount
C12_Witness ==
  /\ response.action = "getGoalProgress"
  /\ Len(response.progress) = 1
  /\ EnabledGoals[1].type = "site_limit"
  /\ EnabledGoals[1].domain = "b.com"
  /\ response.progress[1].exceeded
  /\ TodayOf("a.com") # TodayOf("b.com")

-----------------------------------------------------------------------------
(* Claims about the scheduler *)

\* The minute of the day and the weekday, from the clock
MinuteOfDay == (now % MS_PER_DAY) \div MS_PER_MINUTE
Weekday == (now \div MS_PER_DAY) % 7

\* [start, end) with overnight wraparound, in minutes of the day
InWindow(start, end, m) ==
  IF start <= end THEN start <= m /\ m < end ELSE m >= start \/ m < end

\* The window of each custom rule, in minutes of the day
RuleWindow(id) ==
  CASE id = "night" -> <<23 * 60, 1 * 60>>
    [] id = "lunch" -> <<12 * 60, 13 * 60>>
    [] id = "strict" -> <<9 * 60, 12 * 60 + 30>>
    [] id = "noonblock" -> <<12 * 60, 13 * 60>>
    [] id = "block" -> <<12 * 60, 12 * 60 + 3>>
    [] id = "nosuppress" -> <<12 * 60 + 1, 12 * 60 + 3>>
    [] id = "relax" -> <<12 * 60, 13 * 60>>

RuleActive(rule) ==
  /\ Weekday \in rule.days
  /\ InWindow(RuleWindow(rule.id)[1], RuleWindow(rule.id)[2], MinuteOfDay)

\* C14: a time window is active iff start <= t < end, or iff t >= start or
\* t < end when start > end; a rule is active iff also the weekday is in its
\* days.  The default quiet hours 22:00-08:00 are active at 23:30 and 03:00,
\* inactive at 12:00 and at 08:00.
C14_WindowWithWraparound ==
  /\ \A i \in 1..Len(schedulerConfig.schedules) :
       isScheduleActive(schedulerConfig.schedules[i], now)
         <=> RuleActive(schedulerConfig.schedules[i])
  /\ (/\ response.action = "getSchedulerStatus"
      /\ schedulerConfig.enabled
      /\ schedulerConfig.quickSettings.quietHoursEnabled)
       => (response.summary.quietHoursActive <=> InWindow(22 * 60, 8 * 60, MinuteOfDay))

\* At 00:30 the quiet hours are reported active and the overnight rule
\* 23:00-01:00 is active with them
C14_Witness ==
  /\ response.action = "getSchedulerStatus"
  /\ MinuteOfDay = 30
  /\ response.summary.quietHoursActive
  /\ response.summary.popupsSuppressed
  /\ \E i \in 1..Len(schedulerConfig.schedules) :
       /\ schedulerConfig.schedules[i].id = "night"
       /\ isScheduleActive(schedulerConfig.schedules[i], now)

\* The product of the thresholdMultiplier of the enabled active
\* adjust_threshold rules among the first n rules
RECURSIVE RuleProduct(_)
RuleProduct(n) ==
  IF n = 0 THEN One
  ELSE LET rule == schedulerConfig.schedules[n]
       IN IF rule.enabled /\ rule.action = "adjust_threshold" /\ RuleActive(rule)
          THEN Times(RuleProduct(n - 1), rule.thresholdMultiplier)
          ELSE RuleProduct(n - 1)

ExpectedMultiplier ==
  LET qs == schedulerConfig.quickSettings
      weekend == IF qs.weekendMode /\ Weekday \in {0, 6} THEN qs.weekendMultiplier ELSE One
      work == IF qs.workHoursEnabled /\ Weekday \in qs.workDays
                   /\ InWindow(9 * 60, 17 * 60, MinuteOfDay)
              THEN Half ELSE One
  IN IF ~schedulerConfig.enabled THEN One
     ELSE Times(Times(weekend, work), RuleProduct(Len(schedulerConfig.schedules)))

SameFraction(a, b) == a.n * b.d = b.n * a.d

\* C15: the multiplier is the product of weekendMultiplier (weekend mode, on
\* Saturday or Sunday), 0.5 (work hours enabled and active on a work day) and
\* the thresholdMultiplier of every enabled active adjust_threshold rule; it is
\* 1 when the scheduler is disabled.
C15_MultiplierIsProduct ==
  response.action = "getSchedulerStatus" =>
    SameFraction(response.summary.currentMultiplier, ExpectedMultiplier)

\* Monday 12:00 with work hours and both adjust_threshold rules active:
\* 0.5 * 2 * 0.5
C15_Witness ==
  /\ response.action = "getSchedulerStatus"
  /\ Weekday = 1
  /\ MinuteOfDay = 12 * 60
  /\ response.summary.workHoursActive
  /\ Len(schedulerConfig.schedules) = 2
  /\ \A i \in 1..2 : schedulerConfig.schedules[i].enabled
  /\ SameFraction(response.summary.currentMultiplier, Half)

\* The scheduler is enabled and the quiet hours are enabled and active, or an
\* enabled disable_popups rule is active
SuppressionActive ==
  LET qs == schedulerConfig.quickSettings
  IN /\ schedulerConfig.enabled
     /\ \/ /\ qs.quietHoursEnabled
           /\ InWindow(MinutesOf(qs.quietHoursStart)[1], MinutesOf(qs.quietHoursEnd)[1],
                       MinuteOfDay)
        \/ \E i \in 1..Len(schedulerConfig.schedules) :
             /\ schedulerConfig.schedules[i].enabled
             /\ schedulerConfig.schedules[i].action = "disable_popups"
             /\ RuleActive(schedulerConfig.schedules[i])

-----------------------------------------------------------------------------
(* Claims about the tiers, the snooze and the minimum time *)

TierNames == <<"medium", "high", "veryHigh">>

\* The ranks (1 medium, 2 high, 3 veryHigh) of the tiers whose threshold is at
\* most e
EligibleTiers(e) == {r \in 1..3 : config.thresholds[TierNames[r]] <= e}

HighestTier(e) == CHOOSE r \in EligibleTiers(e) : \A q \in EligibleTiers(e) : q <= r

\* The time spent on a.com: the ledger's, no session being active
SpentOnA == TodayOf("a.com")

\* The first tick has passed its decision to fire or not
FirstTickDecided ==
  /\ popupCheckInterval > BootTime + TICK_INTERVAL
  /\ ticks[1].pc \notin {"checkGoalNotifications", "saveGoals"}

SnoozeRunning == TruthyNum(snoozeUntil) /\ now < snoozeUntil

\* C17: after snoozePopups is handled at t with duration d, no intervention
\* is dispatched in [t, t + d), not even by a tick that had started before the
\* snooze was recorded.
C17_NoPopupWhileSnoozed ==
  [][ popups' # popups => ~SnoozeRunning ]_vars

\* round(minTimeBeforePopup * multiplier), the multiplier being stated from
\* the configuration
ExpectedMinTime ==
  (2 * config.minTimeBeforePopup * ExpectedMultiplier.n + ExpectedMultiplier.d)
    \div (2 * ExpectedMultiplier.d)

\* C18: no intervention is dispatched when the time spent is below
\* round(minTimeBeforePopup * multiplier); the tier thresholds and intervals
\* of the same tick are those of the configuration, not multiplied.
C18_MinTimeGateOnly ==
  /\ \A i \in 1..Len(popups) :
       /\ SpentOnA >= ExpectedMinTime
       /\ popups[i].interval = config.intervals[TierNames[HighestTier(SpentOnA)]]
  /\ (FirstTickDecided /\ SpentOnA >= ExpectedMinTime /\ SpentOnA >= config.thresholds.medium)
       => (/\ Len(popups) >= 1
           /\ popups[1].time = BootTime + TICK_INTERVAL
           /\ popups[1].interval = config.intervals[TierNames[HighestTier(SpentOnA)]])

\* The first tick ran with 16 minutes spent, above the medium threshold and
\* below the minimum time of 20 minutes (multiplier 4), and dispatched nothing
C18_Witness ==
  /\ FirstTickDecided
  /\ \A i \in TickIds : ticks[i].pc = "idle"
  /\ SpentOnA = 16 * MS_PER_MINUTE
  /\ ExpectedMinTime = 20 * MS_PER_MINUTE
  /\ popups = <<>>

\* C19: when the overlay message fails, one notification is attempted in its
\* place (and none when it succeeds); whether the overlay or the notification
\* fails, triggerPopup does not throw, and the tick that fired ends with
\* lastPopupTime and lastPopupDomain recorded for its intervention.
C19_DeliveryFallback ==
  /\ Len(delivered) <= Len(popups)
  /\ \A k \in 1..Len(delivered) :
       /\ delivered[k].domain = popups[k].domain
       /\ delivered[k].overlay = channels.overlay
       /\ delivered[k].notifications = (IF channels.overlay THEN 0 ELSE 1)
       /\ ~delivered[k].threw
  /\ (\A i \in TickIds : ticks[i].pc = "idle") =>
       /\ Len(delivered) = Len(popups)
       /\ Len(popups) >= 1 =>
            /\ lastPopupTime >= popups[Len(popups)].time
            /\ lastPopupDomain = popups[Len(popups)].domain

\* The overlay and the notification both failed, and the tick has ended with
\* the last popup recorded
C19_Witness ==
  /\ ~channels.overlay
  /\ ~channels.notification
  /\ \A i \in TickIds : ticks[i].pc = "idle"
  /\ Len(delivered) = 1
  /\ delivered[1].notifications = 1
  /\ ~delivered[1].shown
  /\ lastPopupTime >= popups[1].time
  /\ lastPopupDomain = "a.com"

\* The fault ends the first execution of checkPopupTrigger before its checks
AbortingFault == fault.step \in {"storageRead", "siteMatcher"}

\* C20: whatever step fails in one execution of checkPopupTrigger, the timer
\* stays armed, every due execution up to the horizon is started, and the
\* execution after the failed one does its checks: a popup is dispatched, and
\* after an execution that the fault ended, the next one notifies the goals
\* and dispatches the popup.
C20_TickLiveness ==
  /\ [](popupCheckInterval # NoTime)
  /\ <>(popupCheckInterval > TickHorizon)
  /\ <>(popups # <<>>)
  /\ AbortingFault => <>(/\ notified # <<>>
                         /\ Len(popups) >= 1
                         /\ popups[1].time = BootTime + 2 * TICK_INTERVAL)

\* The storage read of the first execution was rejected, and the second
\* execution has dispatched the popup
C20_Witness ==
  /\ fault.step = "storageRead"
  /\ popupCheckInterval > BootTime + 2 * TICK_INTERVAL
  /\ Len(popups) = 1
  /\ popups[1].time = BootTime + 2 * TICK_INTERVAL
  /\ notified # <<>>

\* A rule whose days are present and whose times parse to numbers
WellFormed(rule) ==
  /\ rule.days # NoDays
  /\ MinutesOf(rule.startTime) # <<>>
  /\ MinutesOf(rule.endTime) # <<>>

\* The configuration without its invalid rules
ValidConfig == [schedulerConfig EXCEPT !.schedules = SelectSeq(schedulerConfig.schedules, WellFormed)]

\* C21: a rule with a malformed or missing startTime, endTime or days raises
\* no exception and counts as inactive: the status reported is the one that
\* the valid rules of the list give (suppression, blocking, multiplier).
C21_MalformedRuleIsInactive ==
  response.action = "getSchedulerStatus" =>
    /\ "popupsSuppressed" \in DOMAIN response.summary
    /\ response.summary.popupsSuppressed = shouldSuppressPopups(ValidConfig, now)
    /\ response.summary.trackingBlocked = shouldBlockTracking(ValidConfig, now)
    /\ SameFraction(response.summary.currentMultiplier,
                    getCurrentThresholdMultiplier(ValidConfig, now))

\* A handler ran (the clock did not move)
HandlerStep == now' = now

\* A flush that fails leaves the session and the ledger as they were
FailedFlushKeepsSession ==
  (HandlerStep /\ FlushFails /\ ActiveSession)
    => (currentDomain' = currentDomain /\ startTime' = startTime /\ timeData' = timeData)

\* A flush that succeeds adds the whole span to the session's entry, once,
\* and ends or restarts the session
FlushCommitsOnce ==
  (HandlerStep /\ ~FlushFails /\ ActiveSession /\ timeData' # timeData)
    => /\ \A d \in TrackedDomains :
            LedgerAt(timeData', getTodayKey(now), d) =
              LedgerAt(timeData, getTodayKey(now), d)
                + (IF d = currentDomain THEN now - startTime ELSE 0)
       /\ startTime' \in {NoTime, now}

\* After a failed flush the span is still reported
SpanReported ==
  (HandlerStep /\ FlushFails /\ ActiveSession)
    => getTimeSpentToday(Tracker, currentDomain, now)' =
         LedgerAt(timeData, getTodayKey(now), currentDomain) + (now - startTime)

\* C22: a flush whose ledger read or write fails leaves currentDomain and
\* startTime unchanged; the unflushed span is still reported by
\* getTimeSpentToday, and a later flush that succeeds commits it once.
C22_FailedFlushKeepsSession ==
  [][ FailedFlushKeepsSession /\ SpanReported /\ FlushCommitsOnce ]_vars

\* The days of the retention window
InWindowDays(t) == (getTodayKey(t) - RETENTION_DAYS)..getTodayKey(t)

\* C23: the persisted value of a (day, domain) inside the retention window
\* never decreases, whatever the order of flushes and daily maintenance.
C23_LedgerMonotonic ==
  [][ \A day \in InWindowDays(now), d \in TrackedDomains :
        LedgerAt(timeData', day, d) >= LedgerAt(timeData, day, d) ]_vars

C25_ReadsArePure ==
  [][ ((\E domain \in TrackedDomains : GetTimeSpent(domain)) \/ GetTodayStats)
        => /\ UNCHANGED <<timeData, currentDomain, startTime, activeTab, trackingInterval>>
           /\ \A d \in TrackedDomains :
                (response'.action = "getTimeSpent" /\ response'.domain = d) =>
                  response'.timeSpent = getTimeSpentToday(Tracker, d, now)'
           /\ response'.action = "getTodayStats" =>
                response'.stats = getTodayStats(Tracker, now)'
           /\ getTotalTimeToday(Tracker, now)' = getTotalTimeToday(Tracker, now) ]_vars

\* getTimeSpent was answered during a session of 30 s or more on a.com, with
\* the session's span in the answer
C25_Witness ==
  /\ response.action = "getTimeSpent"
  /\ response.domain = "a.com"
  /\ currentDomain = "a.com"
  /\ TruthyNum(startTime)
  /\ now > startTime
  /\ response.timeSpent = LedgerAt(timeData, getTodayKey(now), "a.com") + (now - startTime)

\* C26: when checkGoalNotifications completes (its saveGoals), the stored
\* history has at most 100 entries, and they are the last entries, in order,
\* of the history read followed by the keys just added.
C26_HistoryCapped ==
  [][ \A i \in TickIds :
        TickSaveGoals(i) =>
          LET full == userGoals.history \o ticks[i].notifications
              kept == userGoals'.history
          IN /\ Len(kept) <= 100
             /\ Len(kept) = (IF Len(full) < 100 THEN Len(full) ELSE 100)
             /\ \A j \in 1..Len(kept) : kept[j] = full[Len(full) - Len(kept) + j] ]_vars

\* A history of 100 keys got two more: the two oldest are gone and the two new
\* ones are the last
C26_Witness ==
  /\ Len(userGoals.history) = 100
  /\ userGoals.history[1] = <<"g0", 3, getTodayKey(BootTime) - 1>>
  /\ userGoals.history[99] = <<"g1", 50, getTodayKey(now)>>
  /\ userGoals.history[100] = <<"g1", 100, getTodayKey(now)>>

\* The reply is an explicit error result: { error: ... } or { success: false, ... }
ErrorResult(data) ==
  \/ "error" \in DOMAIN data
  \/ ("success" \in DOMAIN data /\ ~data.success)

\* sendResponse is invoked exactly once for each message
OneResponsePerMessage ==
  ("sent" \in DOMAIN response) => Len(response.sent) = 1

\* An action the listener does not know is answered { error: 'Unknown action' }
UnknownActionIsExplicit ==
  (response.action = "unknownAction") =>
    response.sent = << [error |-> "Unknown action"] >>

\* C27: every message to the background listener receives exactly one
\* response; an unknown action is answered { error: 'Unknown action' }; a
\* handler that throws is answered with { error: ... } or
\* { success: false, ... }; sendResponse is never invoked twice.
C27_OneExplicitResponse ==
  /\ OneResponsePerMessage
  /\ UnknownActionIsExplicit
  /\ (("sent" \in DOMAIN response /\ response.threw) =>
        \A k \in 1..Len(response.sent) : ErrorResult(response.sent[k]))

\* C28: getStorageValue(key) returns null when the key was never stored and
\* otherwise exactly the value most recently stored with setStorageValue,
\* for every storable value, 0, false and the empty string included.
C28_StorageRoundTrip ==
  [][ \A key \in StorageKeys :
        GetStorageValue(key) =>
          response'.value = (IF storage[key] = JsUndefined THEN JsNull ELSE storage[key]) ]_vars

\* C29: with no configuration stored, getConfig returns the default
\* configuration: an object that holds a boolean popupEnabled.
C29_DefaultConfigWhenNoneStored ==
  [][ (GetConfig /\ storage["config"] = JsUndefined) =>
        /\ response'.config.type = "object"
        /\ "popupEnabled" \in DOMAIN response'.config.obj
        /\ response'.config.obj.popupEnabled \in BOOLEAN ]_vars

\* The time on the domain of the k-th intervention (no session runs in SpecTiers)
SpentAtPopup(k) == LedgerAt(timeData, getTodayKey(popups[k].time), popups[k].domain)

\* Below 15 minutes no intervention; from 15 to 30 the interval is 10 minutes
DefaultLowerTiers ==
  config = DEFAULT_CONFIG =>
    \A k \in 1..Len(popups) :
      /\ SpentAtPopup(k) >= 15 * MS_PER_MINUTE
      /\ SpentAtPopup(k) < 30 * MS_PER_MINUTE => popups[k].interval = 10 * MS_PER_MINUTE

\* C30: with the default configuration the repeat interval selected is the
\* veryHigh one (3 minutes) once the time on the domain today is 30 minutes
\* or more, the medium one (10 minutes) between 15 and 30 minutes, and no
\* intervention is shown below 15 minutes.
C30_DefaultTierIntervals ==
  /\ DefaultLowerTiers
  /\ config = DEFAULT_CONFIG =>
       \A k \in 1..Len(popups) :
         SpentAtPopup(k) >= 30 * MS_PER_MINUTE => popups[k].interval = 3 * MS_PER_MINUTE

-----------------------------------------------------------------------------
(* Claims about the session's shape and its flushes *)

\* C31: between operations the session is well-formed: currentDomain is
\* non-null if and only if startTime is non-null, after any sequence of tab
\* events and periodic flushes.
C31_SessionWellFormed ==
  (currentDomain # NULL) <=> (startTime # NoTime)

\* C32: no span is flushed twice: when flush triggers for one session
\* interleave at their awaits (the tab-removed and the window-blur handlers),
\* the ledger entry of the session's domain grows by at most the time the
\* session ran.
C32_NoSpanFlushedTwice ==
  LedgerAt(timeData, getTodayKey(now), "a.com")
    <= LedgerAt(InitLedger, getTodayKey(BootTime), "a.com") + trueActive

\* C33: the removal of a tab other than the active tab leaves the session
\* (currentDomain, startTime), the active-tab record and the periodic flush
\* timer unchanged.
C33_OtherTabRemovalIsInert ==
  [][ \A tabId \in TabIds :
        (TabRemoved(tabId) /\ tabId # browserActive) =>
          UNCHANGED <<currentDomain, startTime, activeTab, trackingInterval>> ]_vars

-----------------------------------------------------------------------------
(* Claims about concurrent writers of the goals record *)

GoalIds(goals) == { goals.goals[k].id : k \in 1..Len(goals.goals) }

\* C34: the effect of a completed deleteGoal is never lost: it is still in
\* the stored goals record after a checkGoalNotifications that was in
\* progress finishes its save of the whole record (the save brings back no
\* goal that the store no longer holds).
C34_GoalWriteSurvivesCheck ==
  [][ \A i \in TickIds :
        TickSaveGoals(i) => GoalIds(userGoals') \subseteq GoalIds(userGoals) ]_vars

-----------------------------------------------------------------------------
(* Claims about focus sessions *)

\* C35: startFocusSession cannot be used while a session is in progress: with
\* an unfinished current session (active or paused) the call fails and
\* leaves the focus state unchanged.
C35_NoStartOverUnfinished ==
  [][ \A type \in SessionTypes :
        (StartFocusSession(type) /\ focus.currentSession # <<>>) =>
          (focus' = focus /\ ~response'.success) ]_vars

\* The time the current session has spent paused, a pause in progress included
PausedSoFar ==
  LET cur == focus.currentSession[1]
  IN cur.pausedTime + (IF cur.status = "paused" THEN now - cur.pauseStart ELSE 0)

\* C36: completeSession records actualDuration = the time from start to end
\* minus all the time spent paused, a pause still in progress included, and
\* adds no more than that to todayStats.focusTime / breakTime.
C36_ActualDurationExcludesPauses ==
  [][ (CompleteSession /\ focus.currentSession # <<>>) =>
        LET cur == focus.currentSession[1]
            expected == (now - cur.startTime) - PausedSoFar
        IN /\ focus'.sessionHistory[1].actualDuration = expected
           /\ focus'.todayStats.focusTime + focus'.todayStats.breakTime
                = getFocusState(focus, now).todayStats.focusTime
                  + getFocusState(focus, now).todayStats.breakTime + expected ]_vars

\* C37: the focus sessionHistory holds at most 100 sessions, the most recent
\* first.
C37_SessionHistoryCapped ==
  /\ Len(focus.sessionHistory) <= 100
  /\ \A j \in 1..Len(focus.sessionHistory) - 1 :
       focus.sessionHistory[j].endTime >= focus.sessionHistory[j + 1].endTime

-----------------------------------------------------------------------------
(* Claims about the batched writer *)

\* C38: every value queued with write(key, value) is eventually written to
\* storage, or superseded by a later write to the key that is itself
\* written, with no further write or forceFlush call, even if a flush fails
\* and its batch is queued again.
C38_QueuedIsEventuallyWritten ==
  \A k \in WriterKeys : \A v \in 1..MaxWrites :
    (writer.pending[k] = v) ~> (writer.persisted[k] >= v)

\* The key is in the batch of a flush in flight
InFlight(k) == \E i \in 1..Len(writer.flights) : writer.flights[i].toWrite[k] # 0

\* C39: for each key the value pending, or persisted once nothing is pending
\* or in flight, is the one of the most recent write; a failed flush that
\* queues its batch again never replaces a newer pending value.
C39_LastWriteWins ==
  \A k \in WriterKeys :
    /\ writer.pending[k] # 0 => writer.pending[k] = writer.last[k]
    /\ (writer.pending[k] = 0 /\ ~InFlight(k)) => writer.persisted[k] = writer.last[k]

-----------------------------------------------------------------------------
(* Claims about withRetry *)

\* The operation runs at most maxRetries + 1 times
RetryCallsBounded == retrying.calls <= retrying.maxRetries + 1

\* The result of the first success is returned with no attempt after it
RetryStopsAtSuccess ==
  [][ retrying.outcome = "returned" =>
        (retrying'.calls = retrying.calls \/ retrying'.calls = 0) ]_vars

\* The wait before retry k + 1 is delay * backoff^k
RetryWaitsBackOff ==
  \A k \in 1..Len(retrying.waits) :
    retrying.waits[k] = retrying.delay * Pow(retrying.backoff, k - 1)

\* After all attempts fail the failure is logged and not thrown
RetryExhaustionIsQuiet ==
  (retrying.pc = "done" /\ retrying.outcome # "returned") =>
    (retrying.logged /\ retrying.outcome # "threw")

\* C40: withRetry runs the operation at most maxRetries + 1 times, returns
\* the result of the first success without further attempts, waits
\* delay * backoff^k before retry k + 1, and after all attempts fail logs
\* the failure and does not throw the error to its caller.
C40_RetryThenQuietFailure ==
  /\ RetryCallsBounded
  /\ RetryWaitsBackOff
  /\ RetryExhaustionIsQuiet

=============================================================================
